---- MODULE Spec2Model ----
(***************************************************************************)
(* Model of the context-switch action-list compiler of libhailort          *)
(* (src/hailort/libhailort/src/hef.cpp): the construction of the           *)
(* ContextSwitchConfigAction list of one operation, the three list         *)
(* rewrites add_fetch_config_actions, handle_edge_layer_activation_actions *)
(* and handle_repeated_actions, and HefUtils::check_ddr_pairs_match.       *)
(*                                                                         *)
(* Vectors are sequences; the C++ code indexes from 0, the model from 1,   *)
(* so an index i of the code is the index i + 1 here.                      *)
(***************************************************************************)
EXTENDS Integers, Sequences, FiniteSets, TLC

(***************************************************************************)
(* Bounds of the model                                                     *)
(***************************************************************************)
\* longest operation of the exhaustively enumerated operations
MaxActions == 3
\* config_resources.size(): number of configuration channels
MaxCfgChannels == 2
\* longest list of ddr channel pairs of a context
MaxDdrPairs == 2
\* longest list of ddr input (output) layers of a context
MaxDdrLayers == 2
\* largest stream index of a ddr layer
MaxStreamIndex == 1

(***************************************************************************)
(* Program constants                                                       *)
(***************************************************************************)
UINT8_MAX == 255
UINT16_MAX == 65535
MIN_REQUIRED_FOR_MERGING == 2

Min(a, b) == IF a < b THEN a ELSE b

IS_FIT_IN_UINT8(n) == n >= 0 /\ n <= UINT8_MAX
IS_FIT_IN_UINT16(n) == n >= 0 /\ n <= UINT16_MAX

\* static_cast<uint8_t>, and the arithmetic of a uint8_t
ToUint8(a) == a % (UINT8_MAX + 1)

(***************************************************************************)
(* ContextSwitchConfigAction and its subclasses                            *)
(***************************************************************************)
\* CONTROL_PROTOCOL__CONTEXT_SWITCH_ACTION_COUNT: "no firmware action type"
ACTION_COUNT == "CONTROL_PROTOCOL__CONTEXT_SWITCH_ACTION_COUNT"
ACTION_ADD_REPEATED == "CONTROL_PROTOCOL__CONTEXT_SWITCH_ACTION_ADD_REPEATED"

\* The base-class constructor: m_type, m_action_list_type,
\* m_is_in_repeated_block(false), m_proto_action.  proto is the position of
\* the referenced ProtoHEFAction in operation.actions(), 0 for
\* ProtoHEFAction::default_instance().  The subclass members
\* (m_config_stream_index, m_ccw_bursts, m_sub_action_type, m_num_actions, and
\* the channel pair a DdrPairInfoAction describes) are part of the same record.
ContextSwitchConfigAction(type, action_list_type, proto) ==
    [type |-> type, action_list_type |-> action_list_type, proto |-> proto,
     is_in_repeated_block |-> FALSE,
     config_stream_index |-> 0, ccw_bursts |-> 0,
     sub_action_type |-> ACTION_COUNT, num_actions |-> 0, ddr_pair |-> 0]

set_is_in_repeated_block(action, is_repeated) ==
    [action EXCEPT !.is_in_repeated_block = is_repeated]

\* <Subclass>::supports_repeated_block(), which every subclass fixes by its
\* Type (AllowInputDataflowAction decides by m_type)
supports_repeated_block(action) ==
    CASE action.type = "None" -> FALSE
      [] action.type = "WriteData" -> FALSE
      [] action.type = "WriteDataCcw" -> FALSE
      [] action.type = "AddCcwBurst" -> FALSE
      [] action.type = "CreateDescForCcw" -> FALSE
      [] action.type = "StartBurstCreditsTask" -> FALSE
      [] action.type = "AddRrepeated" -> FALSE
      [] action.type = "DisableLcu" -> TRUE
      [] action.type = "EnableLcuDefault" -> TRUE
      [] action.type = "EnableLcuNonDefault" -> TRUE
      [] action.type = "TriggerSequencer" -> TRUE
      [] action.type = "WaitForSequencerDone" -> FALSE
      [] action.type = "TriggerNewDataFromDataInputDdr" -> FALSE
      [] action.type = "TriggerNewDataFromDataInput" -> TRUE
      [] action.type = "WaitForModuleConfigDone" -> FALSE
      [] action.type = "DdrPairInfo" -> TRUE
      [] action.type = "StartDdrBufferingTask" -> FALSE
      [] action.type = "EdgeLayerActivationActionsPositionMarker" -> FALSE
      [] OTHER -> FALSE

AllowInputDataflowAction_get_input_dataflow_action_type(proto_action) ==
    IF proto_action.connection_type = "PROTO__EDGE_CONNECTION_TYPE__DDR"
    THEN "TriggerNewDataFromDataInputDdr"
    ELSE "TriggerNewDataFromDataInput"

\* Expected<T>: a status and, on HAILO_SUCCESS, a value.  The creations that
\* can fail only with HAILO_OUT_OF_HOST_MEMORY (a failed new) are modelled as
\* returning the action itself.
Expected(status, value) == [status |-> status, value |-> value]

NoValue == ContextSwitchConfigAction("None", ACTION_COUNT, 0)

WriteDataCcwAction_create(proto_action, proto, config_size) ==
    IF ~(proto_action.cfg_channel_index < config_size)
    THEN Expected("HAILO_INVALID_HEF", NoValue)
    ELSE IF ~IS_FIT_IN_UINT8(proto_action.cfg_channel_index)
    THEN Expected("HAILO_INVALID_HEF", NoValue)
    ELSE Expected("HAILO_SUCCESS",
            ContextSwitchConfigAction("WriteDataCcw", ACTION_COUNT, proto))

DisableLcuAction_create(proto) ==
    ContextSwitchConfigAction("DisableLcu",
        "CONTROL_PROTOCOL__CONTEXT_SWITCH_ACTION_DISABLE_LCU", proto)

NoneAction_create == ContextSwitchConfigAction("None", ACTION_COUNT, 0)

WriteDataAction_create(proto) == ContextSwitchConfigAction("WriteData", ACTION_COUNT, proto)

\* EnableLcuAction::create; is_default is the comparison of the kernel done
\* address and count of the proto action with the default ones
EnableLcuAction_create(proto_action, proto) ==
    IF proto_action.is_default
    THEN ContextSwitchConfigAction("EnableLcuDefault",
            "CONTROL_PROTOCOL__CONTEXT_SWITCH_ACTION_ENABLE_LCU_DEFAULT", proto)
    ELSE ContextSwitchConfigAction("EnableLcuNonDefault",
            "CONTROL_PROTOCOL__CONTEXT_SWITCH_ACTION_ENABLE_LCU_NON_DEFAULT", proto)

EnableSequencerAction_create(proto) ==
    ContextSwitchConfigAction("TriggerSequencer",
        "CONTROL_PROTOCOL__CONTEXT_SWITCH_ACTION_TRIGGER_SEQUENCER", proto)

WaitForSeqeuncerAction_create(proto) ==
    ContextSwitchConfigAction("WaitForSequencerDone",
        "CONTROL_PROTOCOL__CONTEXT_SWITCH_ACTION_WAIT_FOR_SEQUENCER_DONE", proto)

WaitForModuleConfigDoneAction_create(proto) ==
    ContextSwitchConfigAction("WaitForModuleConfigDone",
        "CONTROL_PROTOCOL__CONTEXT_SWITCH_ACTION_WAIT_FOR_MODULE_CONFIG_DONE", proto)

AllowInputDataflowAction_create(proto_action, proto) ==
    ContextSwitchConfigAction(
        AllowInputDataflowAction_get_input_dataflow_action_type(proto_action),
        "CONTROL_PROTOCOL__CONTEXT_SWITCH_ACTION_TRIGGER_NEW_DATA_FROM_DATA_INPUT",
        proto)

AddCcwBurstAction_create(config_stream_index, ccw_bursts) ==
    [ContextSwitchConfigAction("AddCcwBurst", ACTION_COUNT, 0) EXCEPT
            !.config_stream_index = config_stream_index,
            !.ccw_bursts = ccw_bursts]

CreateConfigDescAndFetchAction_create(config_stream_index) ==
    [ContextSwitchConfigAction("CreateDescForCcw", ACTION_COUNT, 0) EXCEPT
            !.config_stream_index = config_stream_index]

StartBurstCreditsTaskAction_create ==
    ContextSwitchConfigAction("StartBurstCreditsTask", ACTION_COUNT, 0)

EdgeLayerActivationActionsPositionMarker_create ==
    ContextSwitchConfigAction("EdgeLayerActivationActionsPositionMarker",
            "CONTROL_PROTOCOL__CONTEXT_SWITCH_ACTION_EDGE_LAYER_ACTIVATION_ACTIONS_POSITION", 0)

\* pair is the position of the channel pair in the context's list of pairs
DdrPairInfoAction_create(pair) ==
    [ContextSwitchConfigAction("DdrPairInfo",
            "CONTROL_PROTOCOL__CONTEXT_SWITCH_ACTION_ADD_DDR_PAIR_INFO", 0) EXCEPT
            !.ddr_pair = pair]

StartDdrBufferingTaskAction_create ==
    ContextSwitchConfigAction("StartDdrBufferingTask",
        "CONTROL_PROTOCOL__CONTEXT_SWITCH_ACTION_ADD_DDR_BUFFERING_START", 0)

RepeatedHeaderAction_create(sub_action_type, num_actions) ==
    IF sub_action_type = ACTION_ADD_REPEATED
    THEN Expected("HAILO_INVALID_HEF", NoValue)
    ELSE IF sub_action_type = ACTION_COUNT
    THEN Expected("HAILO_INVALID_HEF", NoValue)
    ELSE IF num_actions = 0
    THEN Expected("HAILO_INVALID_HEF", NoValue)
    ELSE Expected("HAILO_SUCCESS",
            [ContextSwitchConfigAction("AddRrepeated", ACTION_ADD_REPEATED, 0) EXCEPT
                !.sub_action_type = sub_action_type,
                !.num_actions = num_actions])

(***************************************************************************)
(* context_switch_actions.cpp: RepeatedAction and the actions it holds     *)
(***************************************************************************)
ACTION_TYPE_COUNT == "CONTEXT_SWITCH_DEFS__ACTION_TYPE_COUNT"
ACTION_TYPE_REPEATED_ACTION == "CONTEXT_SWITCH_DEFS__ACTION_TYPE_REPEATED_ACTION"

\* an action of context_switch_actions.cpp: m_type, m_action_list_type, what
\* the supports_repeated_block() of its class returns, and for a
\* RepeatedAction m_actions and m_sub_action_type
SubAction(type, action_list_type, supports_repeated) ==
    [type |-> type, action_list_type |-> action_list_type,
     supports_repeated_block |-> supports_repeated,
     actions |-> <<>>, sub_action_type |-> ACTION_TYPE_COUNT]

\* RepeatedAction::create with a slip: the number of actions is not checked
RepeatedAction_create_of_any_size(actions) ==
    IF ~(actions # <<>>)
    THEN Expected("HAILO_INVALID_HEF", NoValue)
    ELSE IF ~actions[1].supports_repeated_block
    THEN Expected("HAILO_INVALID_HEF", NoValue)
    ELSE IF ~(actions[1].action_list_type # ACTION_TYPE_COUNT)
    THEN Expected("HAILO_INVALID_HEF", NoValue)
    ELSE Expected("HAILO_SUCCESS",
            [SubAction("AddRepeated", ACTION_TYPE_REPEATED_ACTION, FALSE) EXCEPT
                !.actions = actions,
                !.sub_action_type = actions[1].action_list_type])

RepeatedAction_create(actions) ==
    IF ~(actions # <<>>)
    THEN Expected("HAILO_INVALID_HEF", NoValue)
    ELSE IF ~IS_FIT_IN_UINT8(Len(actions))
    THEN Expected("HAILO_INTERNAL_FAILURE", NoValue)
    ELSE IF ~actions[1].supports_repeated_block
    THEN Expected("HAILO_INVALID_HEF", NoValue)
    ELSE IF ~(actions[1].action_list_type # ACTION_TYPE_COUNT)
    THEN Expected("HAILO_INVALID_HEF", NoValue)
    ELSE Expected("HAILO_SUCCESS",
            [SubAction("AddRepeated", ACTION_TYPE_REPEATED_ACTION, FALSE) EXCEPT
                !.actions = actions,
                !.sub_action_type = actions[1].action_list_type])

\* ContextSwitchConfigAction::create: the switch on action_case() (the
\* range checks of the subclasses on the fields of the proto action, other
\* than the one of WriteDataCcwAction, are taken to pass)
ContextSwitchConfigAction_create(proto_action, proto, config_size) ==
    CASE proto_action.action_case = "kWriteDataCcw" ->
            WriteDataCcwAction_create(proto_action, proto, config_size)
      [] proto_action.action_case = "kWriteData" ->
            Expected("HAILO_SUCCESS", WriteDataAction_create(proto))
      [] proto_action.action_case = "kDisableLcu" ->
            Expected("HAILO_SUCCESS", DisableLcuAction_create(proto))
      [] proto_action.action_case = "kEnableLcu" ->
            Expected("HAILO_SUCCESS", EnableLcuAction_create(proto_action, proto))
      [] proto_action.action_case = "kEnableSequencer" ->
            Expected("HAILO_SUCCESS", EnableSequencerAction_create(proto))
      [] proto_action.action_case = "kNone" ->
            Expected("HAILO_SUCCESS", NoneAction_create)
      [] proto_action.action_case = "kWaitForSeqeuncer" ->
            Expected("HAILO_SUCCESS", WaitForSeqeuncerAction_create(proto))
      [] proto_action.action_case = "kWriteCompressedData" ->
            Expected("HAILO_NOT_IMPLEMENTED", NoValue)
      [] proto_action.action_case = "kAllowInputDataflow" ->
            Expected("HAILO_SUCCESS", AllowInputDataflowAction_create(proto_action, proto))
      [] proto_action.action_case = "kWaitForModuleConfigDone" ->
            Expected("HAILO_SUCCESS", WaitForModuleConfigDoneAction_create(proto))
      [] OTHER -> Expected("HAILO_INTERNAL_FAILURE", NoValue)

\* the switch on action_case() of
\* Hef::Impl::create_single_context_network_group_config for one action: the
\* status it returns with, HAILO_SUCCESS when it goes on (the buffers it
\* creates and parses are taken to be well formed)
single_context_action_status(proto_action) ==
    CASE proto_action.action_case = "kNone" -> "HAILO_SUCCESS"
      [] proto_action.action_case = "kWriteData" -> "HAILO_SUCCESS"
      [] proto_action.action_case = "kWriteDataCcw" -> "HAILO_SUCCESS"
      [] proto_action.action_case = "kDisableLcu" -> "HAILO_SUCCESS"
      [] proto_action.action_case = "kEnableLcu" -> "HAILO_SUCCESS"
      [] proto_action.action_case = "kAllowInputDataflow" -> "HAILO_SUCCESS"
      [] proto_action.action_case = "kWaitForModuleConfigDone" -> "HAILO_SUCCESS"
      [] proto_action.action_case = "kWaitForSeqeuncer" -> "HAILO_INVALID_HEF"
      [] proto_action.action_case = "kEnableSequencer" -> "HAILO_INVALID_HEF"
      [] OTHER -> "HAILO_INTERNAL_FAILURE"

\* Hef::Impl::create_single_context_network_group_config over the actions of
\* an operation whose trigger is kTriggerNone: the status of the first action
\* it returns at
create_single_context_network_group_config(proto_actions) ==
    LET failed == { i \in DOMAIN proto_actions :
                        single_context_action_status(proto_actions[i]) # "HAILO_SUCCESS" }
    IN  IF failed = {} THEN "HAILO_SUCCESS"
        ELSE single_context_action_status(
                proto_actions[CHOOSE i \in failed : \A j \in failed : i <= j])

(***************************************************************************)
(* The list rewrites of parse_actions_in_operation                         *)
(***************************************************************************)
\* the do-while loop of get_repreated_actions_boundary_indices: end_index
\* advances from start_index + 1 and stops at the first index that is the end
\* of the vector or holds an action of another type
boundary_end_index(actions, start_index) ==
    LET stops == { end_index \in (start_index + 1)..(Len(actions) + 1) :
                        \/ end_index = Len(actions) + 1
                        \/ actions[start_index].type # actions[end_index].type }
    IN  CHOOSE end_index \in stops : \A other \in stops : end_index <= other

\* the while loop of get_repreated_actions_boundary_indices
RECURSIVE boundary_indices_from(_, _)
boundary_indices_from(actions, start_index) ==
    IF start_index < Len(actions) + 1
    THEN LET end_index == boundary_end_index(actions, start_index)
         IN  <<(<<start_index, end_index - 1>>)>> \o boundary_indices_from(actions, end_index)
    ELSE <<>>

\* Pairs <<start, end>> (inclusive) of the runs of actions of one Type
get_repreated_actions_boundary_indices(actions) ==
    boundary_indices_from(actions, 1)

\* the while loop of get_start_indexes_of_repeated_actions over one run:
\* the set of <<start index, chunk size>> it emplaces
RECURSIVE repeated_chunks(_, _)
\* the chunks of a run with a slip: the length of the rest of the run is cast
\* to 8 bits without taking the minimum with the largest count first
repeated_chunks_truncating(start_index, end_index) ==
    IF start_index < end_index
    THEN LET curr_chunk_size == (end_index - start_index + 1) % (UINT8_MAX + 1)
         IN  IF curr_chunk_size < MIN_REQUIRED_FOR_MERGING
             THEN {}
             ELSE {<<start_index, curr_chunk_size>>}
                    \cup repeated_chunks(start_index + curr_chunk_size, end_index)
    ELSE {}

\* the while loop of get_start_indexes_of_repeated_actions over one run
repeated_chunks(start_index, end_index) ==
    IF start_index < end_index
    THEN LET curr_chunk_size == Min(UINT8_MAX, end_index - start_index + 1) % (UINT8_MAX + 1)
         IN  IF curr_chunk_size < MIN_REQUIRED_FOR_MERGING
             THEN {}
             ELSE {<<start_index, curr_chunk_size>>}
                    \cup repeated_chunks(start_index + curr_chunk_size, end_index)
    ELSE {}

\* get_start_indexes_of_repeated_actions with a guard the code does not have:
\* a run whose first action is already marked as repeated is skipped
get_start_indexes_of_repeated_actions_skipping_marked(actions, repeated_indexes) ==
    LET chunks == UNION { IF /\ supports_repeated_block(actions[repeated_indexes[k][1]])
                             /\ ~actions[repeated_indexes[k][1]].is_in_repeated_block
                          THEN repeated_chunks(repeated_indexes[k][1], repeated_indexes[k][2])
                          ELSE {} : k \in DOMAIN repeated_indexes }
    IN  [start \in {c[1] : c \in chunks} |-> (CHOOSE c \in chunks : c[1] = start)[2]]

\* get_start_indexes_of_repeated_actions with a slip: runs of actions that do
\* not support a repeated block are chunked too
get_start_indexes_of_repeated_actions_of_any_type(actions, repeated_indexes) ==
    LET chunks == UNION { repeated_chunks(repeated_indexes[k][1], repeated_indexes[k][2])
                            : k \in DOMAIN repeated_indexes }
    IN  [start \in {c[1] : c \in chunks} |-> (CHOOSE c \in chunks : c[1] = start)[2]]

\* The map from the start indexes of repeated actions to the chunk sizes
\* (the denylist of the only call is empty)
get_start_indexes_of_repeated_actions(actions, repeated_indexes) ==
    LET chunks == UNION { IF supports_repeated_block(actions[repeated_indexes[k][1]])
                          THEN repeated_chunks(repeated_indexes[k][1], repeated_indexes[k][2])
                          ELSE {} : k \in DOMAIN repeated_indexes }
    IN  [start \in {c[1] : c \in chunks} |-> (CHOOSE c \in chunks : c[1] = start)[2]]

get_indexes_of_action_type(actions, repeated_indexes, required_action_type) ==
    { repeated_indexes[k] : k \in { j \in DOMAIN repeated_indexes :
            actions[repeated_indexes[j][1]].type = required_action_type } }

\* get_end_indexes_of_action_type with a slip: it takes the first index of
\* each pair
get_end_indexes_of_action_type_taking_first(actions, repeated_indexes, required_action_type) ==
    { index_pair[1] : index_pair \in
        get_indexes_of_action_type(actions, repeated_indexes, required_action_type) }

get_end_indexes_of_action_type(actions, repeated_indexes, required_action_type) ==
    { index_pair[2] : index_pair \in
        get_indexes_of_action_type(actions, repeated_indexes, required_action_type) }

\* the marking loop of handle_repeated_actions with a slip: it starts one
\* action late
mark_repeated_after_first(actions, action_index, num_repeates) ==
    [i \in DOMAIN actions |->
        IF i > action_index /\ i < action_index + num_repeates
        THEN set_is_in_repeated_block(actions[i], TRUE)
        ELSE actions[i]]

\* the marking loop of handle_repeated_actions
mark_repeated(actions, action_index, num_repeates) ==
    [i \in DOMAIN actions |->
        IF i >= action_index /\ i < action_index + num_repeates
        THEN set_is_in_repeated_block(actions[i], TRUE)
        ELSE actions[i]]

\* handle_repeated_iteration with a slip: the first action of a group is not
\* added after its header
handle_repeated_iteration_drops_member(st, start_indexes, action_index) ==
    IF st.status # "HAILO_SUCCESS" THEN st
    ELSE IF action_index \in DOMAIN start_indexes
    THEN LET num_repeates == start_indexes[action_index]
             sub_action_type == st.configuration_actions[action_index].action_list_type
             repeated_header_action == RepeatedHeaderAction_create(sub_action_type, num_repeates)
         IN  IF repeated_header_action.status # "HAILO_SUCCESS"
             THEN [st EXCEPT !.status = repeated_header_action.status]
             ELSE LET marked == mark_repeated(st.configuration_actions, action_index, num_repeates)
                  IN  [st EXCEPT !.configuration_actions = marked,
                                 !.processed = st.processed \o <<repeated_header_action.value>>]
    ELSE [st EXCEPT !.processed = Append(st.processed, st.configuration_actions[action_index])]

\* one iteration of the for loop of handle_repeated_actions; st is the state
\* of the loop: the status, the (marked) configuration_actions and the
\* processed list.  A failed CHECK ends the loop: later iterations do nothing.
handle_repeated_iteration(st, start_indexes, action_index) ==
    IF st.status # "HAILO_SUCCESS" THEN st
    ELSE IF action_index \in DOMAIN start_indexes
    THEN LET num_repeates == start_indexes[action_index]
             sub_action_type == st.configuration_actions[action_index].action_list_type
             repeated_header_action == RepeatedHeaderAction_create(sub_action_type, num_repeates)
         IN  IF repeated_header_action.status # "HAILO_SUCCESS"
             THEN [st EXCEPT !.status = repeated_header_action.status]
             ELSE LET marked == mark_repeated(st.configuration_actions, action_index, num_repeates)
                  IN  [st EXCEPT !.configuration_actions = marked,
                                 !.processed = st.processed \o
                                        <<repeated_header_action.value, marked[action_index]>>]
    ELSE [st EXCEPT !.processed = Append(st.processed, st.configuration_actions[action_index])]

\* the for loop of handle_repeated_actions: the iterations first..last in
\* ascending order, ended by the first failed CHECK (evaluated by halves,
\* which keeps the evaluation shallow)
RECURSIVE handle_repeated_loop(_, _, _, _)
handle_repeated_loop(st, start_indexes, first, last) ==
    IF first > last THEN st
    ELSE IF first = last THEN handle_repeated_iteration(st, start_indexes, first)
    ELSE LET mid == (first + last) \div 2
             done == handle_repeated_loop(st, start_indexes, first, mid)
         IN  IF done.status # "HAILO_SUCCESS" THEN done
             ELSE handle_repeated_loop(done, start_indexes, mid + 1, last)

\* handle_repeated_actions: the status and the new configuration_actions
handle_repeated_actions(configuration_actions) ==
    LET repeated_indexes == get_repreated_actions_boundary_indices(configuration_actions)
        start_indexes_of_repeated_actions ==
            get_start_indexes_of_repeated_actions(configuration_actions, repeated_indexes)
        st == handle_repeated_loop(
                [status |-> "HAILO_SUCCESS", configuration_actions |-> configuration_actions,
                 processed |-> <<>>],
                start_indexes_of_repeated_actions, 1, Len(configuration_actions))
    IN  IF st.status = "HAILO_SUCCESS"
        THEN Expected("HAILO_SUCCESS", st.processed)
        ELSE Expected(st.status, st.configuration_actions)

\* the for loop of push_fetch_config_actions over the std::set of pending
\* config stream indexes, which iterates in ascending order
RECURSIVE push_fetch_loop(_, _, _, _, _)
push_fetch_loop(config_size, pending, total_ccw_bursts, support_pre_fetch, res) ==
    IF pending = {} THEN res
    ELSE LET config_stream_index == CHOOSE i \in pending : \A j \in pending : i <= j
         IN  IF ~(config_stream_index < config_size)
             THEN Expected("HAILO_INTERNAL_FAILURE", res.value)
             ELSE LET fetch_config_action ==
                        IF support_pre_fetch
                        THEN AddCcwBurstAction_create(config_stream_index,
                                total_ccw_bursts[config_stream_index])
                        ELSE CreateConfigDescAndFetchAction_create(config_stream_index)
                  IN  push_fetch_loop(config_size, pending \ {config_stream_index},
                        total_ccw_bursts, support_pre_fetch,
                        Expected("HAILO_SUCCESS", Append(res.value, fetch_config_action)))

\* push_fetch_config_actions: the status and the new
\* processed_configuration_actions (total_ccw_bursts has one entry per config
\* resource by construction, so the first CHECK passes)
push_fetch_config_actions(config_size, pending_config_stream_indexes, total_ccw_bursts, support_pre_fetch, processed_configuration_actions) ==
    push_fetch_loop(config_size, pending_config_stream_indexes, total_ccw_bursts,
        support_pre_fetch, Expected("HAILO_SUCCESS", processed_configuration_actions))

\* proccess_write_ccw_action with a slip: the pending indexes and the burst
\* counts are kept after the fetch actions of a run are pushed
proccess_write_ccw_action_keeping_pending(configuration_action, proto_actions, config_size, st, end_indexes_of_write_ccw_actions, action_index, support_pre_fetch) ==
    LET config_stream_index == proto_actions[configuration_action.proto].cfg_channel_index
        ccw_bursts == 1
        accum_ccw_bursts == st.total_ccw_bursts[config_stream_index] + ccw_bursts
    IN  IF ~IS_FIT_IN_UINT8(config_stream_index)
        THEN [st EXCEPT !.status = "HAILO_INVALID_HEF"]
        ELSE IF ~IS_FIT_IN_UINT16(accum_ccw_bursts)
        THEN [st EXCEPT !.status = "HAILO_INTERNAL_FAILURE",
                        !.pending = st.pending \cup {config_stream_index}]
        ELSE LET pending == st.pending \cup {config_stream_index}
                 total == [st.total_ccw_bursts EXCEPT ![config_stream_index] = accum_ccw_bursts]
                 added == Append(st.processed, configuration_action)
             IN  IF action_index \in end_indexes_of_write_ccw_actions
                 THEN LET pushed == push_fetch_config_actions(config_size, pending, total,
                                        support_pre_fetch, added)
                      IN  IF pushed.status # "HAILO_SUCCESS"
                          THEN [status |-> pushed.status, pending |-> pending,
                                total_ccw_bursts |-> total, processed |-> pushed.value]
                          ELSE [status |-> "HAILO_SUCCESS", pending |-> pending,
                                total_ccw_bursts |-> total,
                                processed |-> pushed.value]
                 ELSE [status |-> "HAILO_SUCCESS", pending |-> pending,
                       total_ccw_bursts |-> total, processed |-> added]

\* proccess_write_ccw_action with a slip: the burst counts are not zeroed
\* after the fetch actions of a run are pushed
proccess_write_ccw_action_keeping_bursts(configuration_action, proto_actions, config_size, st, end_indexes_of_write_ccw_actions, action_index, support_pre_fetch) ==
    LET config_stream_index == proto_actions[configuration_action.proto].cfg_channel_index
        ccw_bursts == 1
        accum_ccw_bursts == st.total_ccw_bursts[config_stream_index] + ccw_bursts
    IN  IF ~IS_FIT_IN_UINT8(config_stream_index)
        THEN [st EXCEPT !.status = "HAILO_INVALID_HEF"]
        ELSE IF ~IS_FIT_IN_UINT16(accum_ccw_bursts)
        THEN [st EXCEPT !.status = "HAILO_INTERNAL_FAILURE",
                        !.pending = st.pending \cup {config_stream_index}]
        ELSE LET pending == st.pending \cup {config_stream_index}
                 total == [st.total_ccw_bursts EXCEPT ![config_stream_index] = accum_ccw_bursts]
                 added == Append(st.processed, configuration_action)
             IN  IF action_index \in end_indexes_of_write_ccw_actions
                 THEN LET pushed == push_fetch_config_actions(config_size, pending, total,
                                        support_pre_fetch, added)
                      IN  IF pushed.status # "HAILO_SUCCESS"
                          THEN [status |-> pushed.status, pending |-> pending,
                                total_ccw_bursts |-> total, processed |-> pushed.value]
                          ELSE [status |-> "HAILO_SUCCESS", pending |-> {},
                                total_ccw_bursts |-> total,
                                processed |-> pushed.value]
                 ELSE [status |-> "HAILO_SUCCESS", pending |-> pending,
                       total_ccw_bursts |-> total, processed |-> added]

\* proccess_write_ccw_action on the loop state st of add_fetch_config_actions:
\* status, pending (pending_config_stream_indexes), total_ccw_bursts, processed
proccess_write_ccw_action(configuration_action, proto_actions, config_size, st, end_indexes_of_write_ccw_actions, action_index, support_pre_fetch) ==
    LET config_stream_index == proto_actions[configuration_action.proto].cfg_channel_index
        ccw_bursts == 1
        accum_ccw_bursts == st.total_ccw_bursts[config_stream_index] + ccw_bursts
    IN  IF ~IS_FIT_IN_UINT8(config_stream_index)
        THEN [st EXCEPT !.status = "HAILO_INVALID_HEF"]
        ELSE IF ~IS_FIT_IN_UINT16(accum_ccw_bursts)
        THEN [st EXCEPT !.status = "HAILO_INTERNAL_FAILURE",
                        !.pending = st.pending \cup {config_stream_index}]
        ELSE LET pending == st.pending \cup {config_stream_index}
                 total == [st.total_ccw_bursts EXCEPT ![config_stream_index] = accum_ccw_bursts]
                 added == Append(st.processed, configuration_action)
             IN  IF action_index \in end_indexes_of_write_ccw_actions
                 THEN LET pushed == push_fetch_config_actions(config_size, pending, total,
                                        support_pre_fetch, added)
                      IN  IF pushed.status # "HAILO_SUCCESS"
                          THEN [status |-> pushed.status, pending |-> pending,
                                total_ccw_bursts |-> total, processed |-> pushed.value]
                          ELSE [status |-> "HAILO_SUCCESS", pending |-> {},
                                total_ccw_bursts |-> [i \in DOMAIN total |-> 0],
                                processed |-> pushed.value]
                 ELSE [status |-> "HAILO_SUCCESS", pending |-> pending,
                       total_ccw_bursts |-> total, processed |-> added]

\* one iteration of the for loop of add_fetch_config_actions
add_fetch_iteration(configuration_actions, proto_actions, config_size, st, end_indexes_of_write_ccws, action_index, support_pre_fetch) ==
    IF st.status # "HAILO_SUCCESS" THEN st
    ELSE IF configuration_actions[action_index].type = "WriteDataCcw"
    THEN proccess_write_ccw_action(configuration_actions[action_index], proto_actions,
            config_size, st, end_indexes_of_write_ccws, action_index, support_pre_fetch)
    ELSE [st EXCEPT !.processed = Append(st.processed, configuration_actions[action_index])]

\* the for loop of add_fetch_config_actions: the iterations first..last in
\* ascending order, ended by the first failed CHECK (evaluated by halves)
RECURSIVE add_fetch_loop(_, _, _, _, _, _, _, _)
add_fetch_loop(configuration_actions, proto_actions, config_size, st, end_indexes_of_write_ccws, support_pre_fetch, first, last) ==
    IF first > last THEN st
    ELSE IF first = last
    THEN add_fetch_iteration(configuration_actions, proto_actions, config_size, st,
            end_indexes_of_write_ccws, first, support_pre_fetch)
    ELSE LET mid == (first + last) \div 2
             done == add_fetch_loop(configuration_actions, proto_actions, config_size, st,
                        end_indexes_of_write_ccws, support_pre_fetch, first, mid)
         IN  IF done.status # "HAILO_SUCCESS" THEN done
             ELSE add_fetch_loop(configuration_actions, proto_actions, config_size, done,
                        end_indexes_of_write_ccws, support_pre_fetch, mid + 1, last)

\* add_fetch_config_actions: the status and the new configuration_actions
\* (unchanged when a CHECK fails)
add_fetch_config_actions(configuration_actions, proto_actions, config_size, support_pre_fetch) ==
    LET repeated_indexes == get_repreated_actions_boundary_indices(configuration_actions)
        end_indexes_of_write_ccws == get_end_indexes_of_action_type(configuration_actions,
                                        repeated_indexes, "WriteDataCcw")
        st == add_fetch_loop(configuration_actions, proto_actions, config_size,
                [status |-> "HAILO_SUCCESS", pending |-> {},
                 total_ccw_bursts |-> [i \in 0..(config_size - 1) |-> 0],
                 processed |-> <<>>],
                end_indexes_of_write_ccws, support_pre_fetch, 1, Len(configuration_actions))
    IN  IF st.status = "HAILO_SUCCESS"
        THEN Expected("HAILO_SUCCESS", st.processed)
        ELSE Expected(st.status, configuration_actions)

\* add_ddr_buffers_info with a slip: need_manual_credit_management() is not
\* asked, every pair of the context gets its DdrPairInfoAction
add_ddr_buffers_info_for_every_pair(configuration_actions, ddr_channel_pairs) ==
    LET infos == [n \in DOMAIN ddr_channel_pairs |-> DdrPairInfoAction_create(n)]
        start_fw_ddr_buffer_task == DOMAIN ddr_channel_pairs # {}
    IN  configuration_actions \o infos \o
            (IF start_fw_ddr_buffer_task THEN <<StartDdrBufferingTaskAction_create>> ELSE <<>>)

\* add_ddr_buffers_info: ddr_channel_pairs is the context's list of channel
\* pairs, each given by its need_manual_credit_management()
add_ddr_buffers_info(configuration_actions, ddr_channel_pairs) ==
    LET manual == { k \in DOMAIN ddr_channel_pairs : ddr_channel_pairs[k] }
        infos == [n \in 1..Cardinality(manual) |->
                    DdrPairInfoAction_create(
                        CHOOSE k \in manual : Cardinality({j \in manual : j <= k}) = n)]
        start_fw_ddr_buffer_task == manual # {}
    IN  configuration_actions \o infos \o
            (IF start_fw_ddr_buffer_task THEN <<StartDdrBufferingTaskAction_create>> ELSE <<>>)

\* proccess_trigger_new_data_input_action with a slip: the position marker is
\* added before every TriggerNewDataFromDataInput action, not only the first
proccess_trigger_new_data_input_action_marking_each(configuration_action, trigger_new_data_from_input_group_start, trigger_new_data_from_input_group_end, action_index, ddr_channel_pairs, processed_configuration_actions) ==
    LET marked == add_ddr_buffers_info(
                        Append(processed_configuration_actions,
                               EdgeLayerActivationActionsPositionMarker_create),
                        ddr_channel_pairs)
        added == Append(marked, configuration_action)
    IN  IF trigger_new_data_from_input_group_end = action_index
        THEN Expected("HAILO_SUCCESS", Append(added, StartBurstCreditsTaskAction_create))
        ELSE Expected("HAILO_SUCCESS", added)

\* proccess_trigger_new_data_input_action with a slip: the
\* StartBurstCreditsTaskAction is added after the first action of the group
proccess_trigger_new_data_input_action_starting_task_early(configuration_action, trigger_new_data_from_input_group_start, trigger_new_data_from_input_group_end, action_index, ddr_channel_pairs, processed_configuration_actions) ==
    LET marked == IF trigger_new_data_from_input_group_start = action_index
                  THEN add_ddr_buffers_info(
                        Append(processed_configuration_actions,
                               EdgeLayerActivationActionsPositionMarker_create),
                        ddr_channel_pairs)
                  ELSE processed_configuration_actions
        added == Append(marked, configuration_action)
    IN  IF trigger_new_data_from_input_group_start = action_index
        THEN Expected("HAILO_SUCCESS", Append(added, StartBurstCreditsTaskAction_create))
        ELSE Expected("HAILO_SUCCESS", added)

\* proccess_trigger_new_data_input_action: the status and the new
\* processed_configuration_actions
proccess_trigger_new_data_input_action(configuration_action, trigger_new_data_from_input_group_start, trigger_new_data_from_input_group_end, action_index, ddr_channel_pairs, processed_configuration_actions) ==
    LET marked == IF trigger_new_data_from_input_group_start = action_index
                  THEN add_ddr_buffers_info(
                        Append(processed_configuration_actions,
                               EdgeLayerActivationActionsPositionMarker_create),
                        ddr_channel_pairs)
                  ELSE processed_configuration_actions
        added == Append(marked, configuration_action)
    IN  IF trigger_new_data_from_input_group_end = action_index
        THEN Expected("HAILO_SUCCESS", Append(added, StartBurstCreditsTaskAction_create))
        ELSE Expected("HAILO_SUCCESS", added)

\* one iteration of the for loop of handle_edge_layer_activation_actions; res
\* is the status and the processed list so far
edge_layer_iteration(configuration_actions, group_start, group_end, ddr_channel_pairs, res, action_index) ==
    IF res.status # "HAILO_SUCCESS" THEN res
    ELSE IF configuration_actions[action_index].type = "TriggerNewDataFromDataInput"
    THEN proccess_trigger_new_data_input_action(configuration_actions[action_index],
            group_start, group_end, action_index, ddr_channel_pairs, res.value)
    ELSE Expected("HAILO_SUCCESS", Append(res.value, configuration_actions[action_index]))

\* the for loop of handle_edge_layer_activation_actions: the iterations
\* first..last in ascending order, ended by the first failed CHECK
\* (evaluated by halves)
RECURSIVE edge_layer_loop(_, _, _, _, _, _, _)
edge_layer_loop(configuration_actions, group_start, group_end, ddr_channel_pairs, res, first, last) ==
    IF first > last THEN res
    ELSE IF first = last
    THEN edge_layer_iteration(configuration_actions, group_start, group_end,
            ddr_channel_pairs, res, first)
    ELSE LET mid == (first + last) \div 2
             done == edge_layer_loop(configuration_actions, group_start, group_end,
                        ddr_channel_pairs, res, first, mid)
         IN  IF done.status # "HAILO_SUCCESS" THEN done
             ELSE edge_layer_loop(configuration_actions, group_start, group_end,
                        ddr_channel_pairs, done, mid + 1, last)

\* handle_edge_layer_activation_actions with a slip: only the absence of a
\* group of TriggerNewDataFromDataInput actions is refused
handle_edge_layer_activation_actions_accepting_groups(configuration_actions, ddr_channel_pairs, is_preliminary, run_asap, is_first) ==
    IF is_preliminary /\ ~run_asap
    THEN Expected("HAILO_SUCCESS", configuration_actions)
    ELSE IF ~is_preliminary /\ ~is_first
    THEN Expected("HAILO_SUCCESS", configuration_actions)
    ELSE LET repeated_indexes == get_repreated_actions_boundary_indices(configuration_actions)
             trigger_new_data_from_input_group_indexes ==
                get_indexes_of_action_type(configuration_actions, repeated_indexes,
                    "TriggerNewDataFromDataInput")
         IN  IF Cardinality(trigger_new_data_from_input_group_indexes) = 0
             THEN Expected("HAILO_INTERNAL_FAILURE", configuration_actions)
             ELSE LET group == CHOOSE g \in trigger_new_data_from_input_group_indexes :
                                \A o \in trigger_new_data_from_input_group_indexes : g[1] <= o[1]
                      res == edge_layer_loop(configuration_actions, group[1], group[2],
                                ddr_channel_pairs, Expected("HAILO_SUCCESS", <<>>),
                                1, Len(configuration_actions))
                  IN  IF res.status = "HAILO_SUCCESS" THEN res
                      ELSE Expected(res.status, configuration_actions)

\* handle_edge_layer_activation_actions with a slip: the operations of a
\* dynamic context after the first are processed as well
handle_edge_layer_activation_actions_on_every_operation(configuration_actions, ddr_channel_pairs, is_preliminary, run_asap, is_first) ==
    IF is_preliminary /\ ~run_asap
    THEN Expected("HAILO_SUCCESS", configuration_actions)
    ELSE LET repeated_indexes == get_repreated_actions_boundary_indices(configuration_actions)
             trigger_new_data_from_input_group_indexes ==
                get_indexes_of_action_type(configuration_actions, repeated_indexes,
                    "TriggerNewDataFromDataInput")
         IN  IF Cardinality(trigger_new_data_from_input_group_indexes) # 1
             THEN Expected("HAILO_INTERNAL_FAILURE", configuration_actions)
             ELSE LET group == CHOOSE g \in trigger_new_data_from_input_group_indexes : TRUE
                      res == edge_layer_loop(configuration_actions, group[1], group[2],
                                ddr_channel_pairs, Expected("HAILO_SUCCESS", <<>>),
                                1, Len(configuration_actions))
                  IN  IF res.status = "HAILO_SUCCESS" THEN res
                      ELSE Expected(res.status, configuration_actions)

\* handle_edge_layer_activation_actions: the status and the new
\* configuration_actions
handle_edge_layer_activation_actions(configuration_actions, ddr_channel_pairs, is_preliminary, run_asap, is_first) ==
    IF is_preliminary /\ ~run_asap
    THEN Expected("HAILO_SUCCESS", configuration_actions)
    ELSE IF ~is_preliminary /\ ~is_first
    THEN Expected("HAILO_SUCCESS", configuration_actions)
    ELSE LET repeated_indexes == get_repreated_actions_boundary_indices(configuration_actions)
             trigger_new_data_from_input_group_indexes ==
                get_indexes_of_action_type(configuration_actions, repeated_indexes,
                    "TriggerNewDataFromDataInput")
         IN  IF Cardinality(trigger_new_data_from_input_group_indexes) # 1
             THEN Expected("HAILO_INTERNAL_FAILURE", configuration_actions)
             ELSE LET group == CHOOSE g \in trigger_new_data_from_input_group_indexes : TRUE
                      res == edge_layer_loop(configuration_actions, group[1], group[2],
                                ddr_channel_pairs, Expected("HAILO_SUCCESS", <<>>),
                                1, Len(configuration_actions))
                  IN  IF res.status = "HAILO_SUCCESS" THEN res
                      ELSE Expected(res.status, configuration_actions)

\* the three rewrites of parse_actions_in_operation in their order, each
\* followed by CHECK_SUCCESS: the status and the rewritten list
rewrite_actions(actions, proto_actions, config_size, pre_fetch, pairs, is_preliminary, run_asap, is_first) ==
    LET fetched == add_fetch_config_actions(actions, proto_actions, config_size, pre_fetch)
        activated == handle_edge_layer_activation_actions(fetched.value, pairs,
                        is_preliminary, run_asap, is_first)
    IN  IF fetched.status # "HAILO_SUCCESS" THEN fetched
        ELSE IF activated.status # "HAILO_SUCCESS" THEN activated
        ELSE handle_repeated_actions(activated.value)

(***************************************************************************)
(* parse_actions_in_operation as one call                                  *)
(***************************************************************************)
\* the status parse_actions_in_operation returns: the first failure of
\* ContextSwitchConfigAction::create, then the status of the three rewrites
\* (the execute loop writes the actions to the context buffer)
parse_actions_in_operation(proto_actions, is_preliminary, is_first, pairs, run_asap, pre_fetch) ==
    LET created == [i \in DOMAIN proto_actions |->
                        ContextSwitchConfigAction_create(proto_actions[i], i, MaxCfgChannels)]
        failed == { i \in DOMAIN created : created[i].status # "HAILO_SUCCESS" }
    IN  IF failed # {}
        THEN created[CHOOSE i \in failed : \A j \in failed : i <= j].status
        ELSE rewrite_actions([i \in DOMAIN created |-> created[i].value], proto_actions,
                MaxCfgChannels, pre_fetch, pairs, is_preliminary, run_asap, is_first).status

(***************************************************************************)
(* parse_and_fill_edge_layers_mapping: the edge layers of a context        *)
(***************************************************************************)
H2D == "H2D"
D2H == "D2H"

\* a layer info of the network group metadata, as get_boundary_layer_info,
\* get_inter_context_layer_info and get_ddr_layer_info fill it from the
\* sys_index, connected_context_index and connected_sys_index of the layer
LayerInfo(type, direction, context_index, sys_index, connected_context_index, connected_sys_index) ==
    [type |-> type, direction |-> direction, context_index |-> context_index,
     stream_index |-> sys_index,
     src_context_index |-> IF direction = H2D THEN connected_context_index ELSE context_index,
     src_stream_index |-> IF direction = H2D THEN connected_sys_index ELSE sys_index,
     dst_stream_index |-> IF direction = H2D THEN sys_index ELSE connected_sys_index]

\* the layer of a kind that is given by its kind alone: an output has stream
\* index 0 and an input stream index 1, they are connected to each other,
\* and the buffer of an inter-context input is the one the context before
\* produces
EdgeLayer(type, direction, context_index) ==
    LayerInfo(type, direction, context_index,
              IF direction = H2D THEN 1 ELSE 0,
              IF type = "INTER_CONTEXT" /\ direction = H2D THEN context_index - 1
              ELSE context_index,
              IF direction = H2D THEN 0 ELSE 1)

\* an edge layer of the metadata is <<type, direction>>, or <<type, direction,
\* sys_index, connected_context_index, connected_sys_index>>
EdgeLayerOf(edge_layer, context_index) ==
    IF Len(edge_layer) = 2 THEN EdgeLayer(edge_layer[1], edge_layer[2], context_index)
    ELSE LayerInfo(edge_layer[1], edge_layer[2], context_index, edge_layer[3],
                   edge_layer[4], edge_layer[5])

\* the elements of a set of layer infos as a vector, in the order of their
\* stream indexes
RECURSIVE LayerInfosInOrder(_)
LayerInfosInOrder(layer_infos) ==
    IF layer_infos = {} THEN << >>
    ELSE LET first == CHOOSE l \in layer_infos :
                        \A m \in layer_infos :
                            <<l.stream_index, l.src_stream_index, l.src_context_index>>
                                = <<m.stream_index, m.src_stream_index, m.src_context_index>>
                            \/ l.stream_index < m.stream_index
                            \/ (l.stream_index = m.stream_index
                                    /\ l.src_stream_index < m.src_stream_index)
                            \/ (l.stream_index = m.stream_index
                                    /\ l.src_stream_index = m.src_stream_index
                                    /\ l.src_context_index < m.src_context_index)
         IN  << first >> \o LayerInfosInOrder(layer_infos \ {first})

\* network_group_metadata->get_<kind>_layer_infos(context_index)
get_layer_infos(metadata, type, direction, context_index) ==
    LayerInfosInOrder({ EdgeLayerOf(edge_layer, context_index) :
                            edge_layer \in { l \in metadata.edge_layers :
                                                l[1] = type /\ l[2] = direction } })

to_layer_identifier(layer_info, direction) ==
    [type |-> layer_info.type, direction |-> direction, name |-> layer_info.context_index,
     stream_index |-> layer_info.stream_index]

\* the six for loops of parse_and_fill_edge_layers_mapping with a slip: the
\* input layers are filled before the output layers
edge_layers_in_wiring_order_inputs_first(metadata, context_index) ==
    get_layer_infos(metadata, "DDR", H2D, context_index)
        \o get_layer_infos(metadata, "BOUNDARY", H2D, context_index)
        \o get_layer_infos(metadata, "INTER_CONTEXT", H2D, context_index)
        \o get_layer_infos(metadata, "DDR", D2H, context_index)
        \o get_layer_infos(metadata, "BOUNDARY", D2H, context_index)
        \o get_layer_infos(metadata, "INTER_CONTEXT", D2H, context_index)

\* the layers in the order of the six for loops that fill them
edge_layers_in_wiring_order(metadata, context_index) ==
    get_layer_infos(metadata, "DDR", D2H, context_index)
        \o get_layer_infos(metadata, "BOUNDARY", D2H, context_index)
        \o get_layer_infos(metadata, "INTER_CONTEXT", D2H, context_index)
        \o get_layer_infos(metadata, "DDR", H2D, context_index)
        \o get_layer_infos(metadata, "BOUNDARY", H2D, context_index)
        \o get_layer_infos(metadata, "INTER_CONTEXT", H2D, context_index)

\* the identifiers of the ddr output layers that are freed: the H2D and the
\* D2H identifier of each layer
RECURSIVE ddr_identifiers(_)
ddr_identifiers(layers) ==
    IF layers = << >> THEN << >>
    ELSE << to_layer_identifier(layers[1], H2D), to_layer_identifier(layers[1], D2H) >>
            \o ddr_identifiers(Tail(layers))

\* the for loops that free with a slip: the identifier of the d2h channel of
\* a ddr output layer is not freed
channel_indexes_to_free_but_ddr_d2h(metadata, context_index) ==
    LET identifier(layers) ==
            [i \in DOMAIN layers |-> to_layer_identifier(layers[i], layers[i].direction)]
        ddr == ddr_identifiers(get_layer_infos(metadata, "DDR", D2H, context_index))
    IN  identifier(get_layer_infos(metadata, "INTER_CONTEXT", H2D, context_index))
            \o identifier(get_layer_infos(metadata, "INTER_CONTEXT", D2H, context_index))
            \o SubSeq(ddr, 1, Len(ddr) - 1)

\* the for loops that free with a slip: the boundary layers are freed too
channel_indexes_to_free_and_boundary(metadata, context_index) ==
    LET identifier(layers) ==
            [i \in DOMAIN layers |-> to_layer_identifier(layers[i], layers[i].direction)]
    IN  identifier(get_layer_infos(metadata, "INTER_CONTEXT", H2D, context_index))
            \o identifier(get_layer_infos(metadata, "INTER_CONTEXT", D2H, context_index))
            \o ddr_identifiers(get_layer_infos(metadata, "DDR", D2H, context_index))
            \o identifier(get_layer_infos(metadata, "BOUNDARY", H2D, context_index))
            \o identifier(get_layer_infos(metadata, "BOUNDARY", D2H, context_index))

\* the layer identifiers the three for loops at the end of
\* parse_and_fill_edge_layers_mapping free, in their order
channel_indexes_to_free(metadata, context_index) ==
    LET identifier(layers) ==
            [i \in DOMAIN layers |-> to_layer_identifier(layers[i], layers[i].direction)]
    IN  identifier(get_layer_infos(metadata, "INTER_CONTEXT", H2D, context_index))
            \o identifier(get_layer_infos(metadata, "INTER_CONTEXT", D2H, context_index))
            \o ddr_identifiers(get_layer_infos(metadata, "DDR", D2H, context_index))

(***************************************************************************)
(* ResourcesManager: the allocator of channel ids and of buffers           *)
(***************************************************************************)
MaxChannels == 3

\* the channel ids the allocator has for a direction
ChannelIds(direction) ==
    IF direction = H2D THEN 0..(MaxChannels - 1) ELSE MaxChannels..(2 * MaxChannels - 1)

\* ResourcesManager::get_available_channel_id on the map of the allocated
\* channels: the channel of the identifier if it has one, else the least free
\* channel id of the direction
get_available_channel_id(allocated_channels, layer_identifier, direction) ==
    LET used == { allocated_channels[i] : i \in DOMAIN allocated_channels }
        free == ChannelIds(direction) \ used
    IN  IF layer_identifier \in DOMAIN allocated_channels
        THEN [status |-> "HAILO_SUCCESS", allocated_channels |-> allocated_channels]
        ELSE IF free = {}
        THEN [status |-> "HAILO_OUT_OF_PHYSICAL_DEVICES", allocated_channels |-> allocated_channels]
        ELSE [status |-> "HAILO_SUCCESS",
              allocated_channels |->
                [i \in DOMAIN allocated_channels \cup {layer_identifier} |->
                    IF i = layer_identifier
                    THEN CHOOSE c \in free : \A d \in free : c <= d
                    ELSE allocated_channels[i]]]

\* ResourcesManager::free_channel_index
free_channel_index(allocated_channels, layer_identifier) ==
    IF layer_identifier \notin DOMAIN allocated_channels
    THEN [status |-> "HAILO_INTERNAL_FAILURE", allocated_channels |-> allocated_channels]
    ELSE [status |-> "HAILO_SUCCESS",
          allocated_channels |->
            [i \in DOMAIN allocated_channels \ {layer_identifier} |-> allocated_channels[i]]]

\* the resources a fill function reads and changes
Resources(allocated, pairs, buffers) ==
    [allocated_channels |-> allocated, ddr_channels_pairs |-> pairs,
     inter_context_buffers |-> buffers]

Filled(status, resources) == [status |-> status, resources |-> resources]

\* the DdrChannelsInfo of a ddr channels pair and the context it was created for
DdrChannelsInfo(context_index, h2d_stream_index, d2h_stream_index) ==
    [context_index |-> context_index, h2d_stream_index |-> h2d_stream_index,
     d2h_stream_index |-> d2h_stream_index]

\* ResourcesManager::create_ddr_channels_pair on the pairs created
create_ddr_channels_pair(ddr_channels_pairs, ddr_pair_info) ==
    ddr_channels_pairs \cup {ddr_pair_info}

\* ResourcesManager::get_ddr_channels_pair: the pairs of the context with the
\* d2h stream index, of which the caller is given one, or none
get_ddr_channels_pair(ddr_channels_pairs, context_index, d2h_stream_index) ==
    { info \in ddr_channels_pairs :
        info.context_index = context_index /\ info.d2h_stream_index = d2h_stream_index }

fill_boundary_layer(resources, layer_info) ==
    LET channel_id == get_available_channel_id(resources.allocated_channels,
                        to_layer_identifier(layer_info, layer_info.direction),
                        layer_info.direction)
    IN  Filled(channel_id.status,
            [resources EXCEPT !.allocated_channels = channel_id.allocated_channels])

\* fill_inter_context_input_layer with a slip: the inter-context buffer is
\* not looked up
fill_inter_context_input_layer_without_buffer(resources, layer_info) ==
    LET channel_id == get_available_channel_id(resources.allocated_channels,
                        to_layer_identifier(layer_info, H2D), H2D)
        leased == [resources EXCEPT !.allocated_channels = channel_id.allocated_channels]
    IN  IF channel_id.status # "HAILO_SUCCESS" THEN Filled(channel_id.status, leased)
        ELSE Filled("HAILO_SUCCESS", leased)

fill_inter_context_input_layer(resources, layer_info) ==
    LET channel_id == get_available_channel_id(resources.allocated_channels,
                        to_layer_identifier(layer_info, H2D), H2D)
        leased == [resources EXCEPT !.allocated_channels = channel_id.allocated_channels]
        intermediate_buffer_key == <<layer_info.src_context_index, layer_info.src_stream_index>>
    IN  IF channel_id.status # "HAILO_SUCCESS" THEN Filled(channel_id.status, leased)
        ELSE IF intermediate_buffer_key \notin resources.inter_context_buffers
        THEN Filled("HAILO_NOT_FOUND", leased)
        ELSE Filled("HAILO_SUCCESS", leased)

fill_inter_context_output_layer(resources, layer_info) ==
    LET channel_id == get_available_channel_id(resources.allocated_channels,
                        to_layer_identifier(layer_info, D2H), D2H)
        leased == [resources EXCEPT !.allocated_channels = channel_id.allocated_channels]
    IN  IF channel_id.status # "HAILO_SUCCESS" THEN Filled(channel_id.status, leased)
        ELSE Filled("HAILO_SUCCESS",
                [leased EXCEPT !.inter_context_buffers =
                    @ \cup {<<layer_info.src_context_index, layer_info.stream_index>>}])

fill_ddr_output_layer(resources, layer_info, padded_ddr_buffers) ==
    IF ~padded_ddr_buffers THEN Filled("HAILO_INVALID_HEF", resources)
    ELSE LET ddr_pair_info == DdrChannelsInfo(layer_info.context_index,
                                    layer_info.dst_stream_index, layer_info.src_stream_index)
             h2d_channel_id == get_available_channel_id(resources.allocated_channels,
                                    to_layer_identifier(layer_info, H2D), H2D)
             d2h_channel_id == get_available_channel_id(h2d_channel_id.allocated_channels,
                                    to_layer_identifier(layer_info, D2H), D2H)
         IN  IF h2d_channel_id.status # "HAILO_SUCCESS"
             THEN Filled(h2d_channel_id.status, resources)
             ELSE IF d2h_channel_id.status # "HAILO_SUCCESS"
             THEN Filled(d2h_channel_id.status,
                    [resources EXCEPT !.allocated_channels = h2d_channel_id.allocated_channels])
             ELSE Filled("HAILO_SUCCESS",
                    [resources EXCEPT
                        !.allocated_channels = d2h_channel_id.allocated_channels,
                        !.ddr_channels_pairs = create_ddr_channels_pair(@, ddr_pair_info)])

fill_ddr_input_layer(resources, layer_info) ==
    LET ddr_channels_pair == get_ddr_channels_pair(resources.ddr_channels_pairs,
                                layer_info.context_index, layer_info.src_stream_index)
    IN  IF ddr_channels_pair = {} THEN Filled("HAILO_INVALID_HEF", resources)
        ELSE LET ddr_info == CHOOSE info \in ddr_channels_pair : TRUE
             IN  IF ~(layer_info.dst_stream_index = ddr_info.h2d_stream_index)
                 THEN Filled("HAILO_INVALID_HEF", resources)
                 ELSE IF ~(layer_info.src_stream_index = ddr_info.d2h_stream_index)
                 THEN Filled("HAILO_INVALID_HEF", resources)
                 ELSE Filled("HAILO_SUCCESS", resources)

\* the body of the for loop that fills a layer of a kind
fill_edge_layer(resources, layer_info, padded_ddr_buffers) ==
    CASE layer_info.type = "DDR" /\ layer_info.direction = D2H ->
            fill_ddr_output_layer(resources, layer_info, padded_ddr_buffers)
      [] layer_info.type = "DDR" /\ layer_info.direction = H2D ->
            fill_ddr_input_layer(resources, layer_info)
      [] layer_info.type = "INTER_CONTEXT" /\ layer_info.direction = D2H ->
            fill_inter_context_output_layer(resources, layer_info)
      [] layer_info.type = "INTER_CONTEXT" /\ layer_info.direction = H2D ->
            fill_inter_context_input_layer(resources, layer_info)
      [] OTHER -> fill_boundary_layer(resources, layer_info)

(***************************************************************************)
(* HefUtils::check_ddr_pairs_match                                         *)
(***************************************************************************)
\* the inner for loop of check_ddr_pairs_match for one output layer, from the
\* input layer at position k on; res is the status and found_mathing_layer
RECURSIVE ddr_match_input_loop(_, _, _, _)
ddr_match_input_loop(ddr_output_layer, context_ddr_input_layers, k, res) ==
    IF k > Len(context_ddr_input_layers) THEN res
    ELSE LET ddr_input_layer == context_ddr_input_layers[k]
         IN  IF ddr_input_layer.stream_index = ddr_output_layer.dst_stream_index
             THEN IF res.value
                  THEN Expected("HAILO_INVALID_HEF", TRUE)
                  ELSE IF ddr_output_layer.core_bytes_per_buffer # ddr_input_layer.core_bytes_per_buffer
                  THEN Expected("HAILO_INVALID_HEF", TRUE)
                  ELSE IF ddr_output_layer.total_buffers_per_frame # ddr_input_layer.total_buffers_per_frame
                  THEN Expected("HAILO_INVALID_HEF", TRUE)
                  ELSE ddr_match_input_loop(ddr_output_layer, context_ddr_input_layers, k + 1,
                            Expected("HAILO_SUCCESS", TRUE))
             ELSE ddr_match_input_loop(ddr_output_layer, context_ddr_input_layers, k + 1, res)

RECURSIVE ddr_match_output_loop(_, _, _)
\* the outer for loop of check_ddr_pairs_match with a slip: an output layer
\* without a matching input layer is not refused
ddr_match_output_loop_ignoring_unmatched(context_ddr_input_layers, context_ddr_output_layers, k) ==
    IF k > Len(context_ddr_output_layers) THEN "HAILO_SUCCESS"
    ELSE LET res == ddr_match_input_loop(context_ddr_output_layers[k],
                        context_ddr_input_layers, 1, Expected("HAILO_SUCCESS", FALSE))
         IN  IF res.status # "HAILO_SUCCESS" THEN res.status
             ELSE ddr_match_output_loop(context_ddr_input_layers, context_ddr_output_layers, k + 1)

\* the outer for loop of check_ddr_pairs_match, from the output layer at
\* position k on
ddr_match_output_loop(context_ddr_input_layers, context_ddr_output_layers, k) ==
    IF k > Len(context_ddr_output_layers) THEN "HAILO_SUCCESS"
    ELSE LET res == ddr_match_input_loop(context_ddr_output_layers[k],
                        context_ddr_input_layers, 1, Expected("HAILO_SUCCESS", FALSE))
         IN  IF res.status # "HAILO_SUCCESS" THEN res.status
             ELSE IF ~res.value THEN "HAILO_INVALID_HEF"
             ELSE ddr_match_output_loop(context_ddr_input_layers, context_ddr_output_layers, k + 1)

check_ddr_pairs_match(context_ddr_input_layers, context_ddr_output_layers) ==
    IF Len(context_ddr_input_layers) # Len(context_ddr_output_layers)
    THEN "HAILO_INVALID_HEF"
    ELSE ddr_match_output_loop(context_ddr_input_layers, context_ddr_output_layers, 1)

(***************************************************************************)
(* State                                                                   *)
(***************************************************************************)
VARIABLES
    operation,                  \* operation.actions(): the ProtoHEFActions of the operation
    support_pre_fetch,          \* is_mercury_device_type(hw_arch)
    is_preliminary_context,     \* the operation belongs to the preliminary config
    is_first_operation,         \* it is the first operation of its context
    preliminary_run_asap,       \* get_supported_features().preliminary_run_asap
    ddr_channel_pairs,          \* get_ddr_channel_pairs_per_context(context_index)
    configuration_actions,      \* the vector parse_actions_in_operation rewrites
    pc,                         \* the next step of parse_actions_in_operation
    status,                     \* the hailo_status parse_actions_in_operation returns
    context_ddr_input_layers,   \* arguments of check_ddr_pairs_match
    context_ddr_output_layers,
    ddr_pairs_status,           \* the hailo_status check_ddr_pairs_match returned
    network_group,              \* the network group create_resources_manager compiles
    compile_pc,                 \* the next step of create_resources_manager
    context_index,              \* the context being filled (PreliminaryContext or 0, 1, ..)
    pending_layers,             \* the layers parse_and_fill_edge_layers_mapping has yet to fill
    pending_frees,              \* the layer identifiers it has yet to free
    operation_index,            \* the next operation of the context to parse
    allocated_channels,         \* ResourcesManager: layer identifier -> channel id
    ddr_channels_pairs,         \* ResourcesManager: the ddr channel pairs created
    inter_context_buffers,      \* ResourcesManager: the inter-context buffers created
    fw_managed_channels,        \* create_fw_managed_vdma_channels has succeeded
    compile_status,             \* the hailo_status of what create_resources_manager returns
    wired,                      \* history: the layers filled in this call of the wiring
    acquired,                   \* history: the identifiers given a channel in this call
    freed,                      \* history: the identifiers freed in this call of the wiring
    compiled,                   \* history: the contexts filled, in the order of filling
    repeated_call,              \* the function that creates a repeated group, and its arguments
    repeated_result,            \* the Expected<ContextSwitchConfigActionPtr> it returned
    net_group,                  \* net_group.contexts(): the edge layers of each context
    layers_result,              \* the function that parsed the edge layers, and what it returned
    channel_id,                 \* the vdma::ChannelId given to pack_vdma_channel_id
    packed_vdma_channel_id,     \* the uint8_t it returned
    m_size,                     \* SpscQueue: the max_size it was created with
    m_inner,                    \* SpscQueue: the ReaderWriterQueue of the items
    m_items_enqueued_sema,      \* SpscQueue: +1 for each enqueued item, -1 for each dequeued
    m_items_dequeued_sema,      \* SpscQueue: +1 for each dequeued item, -1 for each enqueued
    m_enqueues_count,           \* SpscQueue: the counter of the callbacks, as an integer
    m_cant_enqueue_callback,    \* SpscQueue: set_on_cant_enqueue_callback has registered one
    m_can_enqueue_callback,     \* SpscQueue: set_on_can_enqueue_callback has registered one
    shutdown_event,             \* SpscQueue: the shutdown event has been signaled
    producer,                   \* the thread that calls enqueue: its position and status
    consumer,                   \* the thread that calls dequeue: its position and result
    callback_calls,             \* history: the callbacks invoked, in the order of the calls
    m_desc_page_size,           \* CircularStreamBufferPool: the size of a descriptor page
    m_transfer_size,            \* CircularStreamBufferPool: the size of each buffer
    m_queue,                    \* CircularStreamBufferPool: the circbuf_t of descriptors
    m_next_enqueue_desc_offset, \* CircularStreamBufferPool: where the next enqueue must be
    pool_call,                  \* the last call on the pool, and what it returned
    dequeued_buffers,           \* history: offsets dequeued and not enqueued since the reset
    m_is_aborted,               \* the stream wrappers: *m_is_aborted of each
    is_stream_enabled,          \* the multiplexer: the stream of the wrapper is enabled
    wrapper_call,               \* the last call on a wrapper, and the status it returned
    core_op_pc,                 \* VdmaConfigCoreOp: the function running and its next step
    core_op_status,             \* VdmaConfigCoreOp: the status the last function returned
    state_machine_enabled,      \* ResourcesManager: the context switch state machine runs
    host_resources,             \* the host resources that are active
    pending_transfers,          \* the streams that have pending transfers
    deactivation                \* history: the steps of deactivate_impl that succeeded

vars == <<operation, support_pre_fetch, is_preliminary_context, is_first_operation,
          preliminary_run_asap, ddr_channel_pairs, configuration_actions, pc, status,
          context_ddr_input_layers, context_ddr_output_layers, ddr_pairs_status,
          network_group, compile_pc, context_index, pending_layers, pending_frees,
          operation_index, allocated_channels, ddr_channels_pairs, inter_context_buffers,
          fw_managed_channels, compile_status, wired, acquired, freed, compiled,
          repeated_call, repeated_result, net_group, layers_result, channel_id,
          packed_vdma_channel_id, m_size, m_inner, m_items_enqueued_sema,
          m_items_dequeued_sema, m_enqueues_count, m_cant_enqueue_callback,
          m_can_enqueue_callback, shutdown_event, producer, consumer, callback_calls,
          m_desc_page_size, m_transfer_size, m_queue, m_next_enqueue_desc_offset,
          pool_call, dequeued_buffers, m_is_aborted, is_stream_enabled, wrapper_call,
          core_op_pc, core_op_status, state_machine_enabled, host_resources,
          pending_transfers, deactivation>>

operation_vars == <<operation, support_pre_fetch, is_preliminary_context, is_first_operation,
                    preliminary_run_asap, ddr_channel_pairs>>
ddr_vars == <<context_ddr_input_layers, context_ddr_output_layers, ddr_pairs_status>>
resources_vars == <<allocated_channels, ddr_channels_pairs, inter_context_buffers>>
repeated_vars == <<repeated_call, repeated_result>>
layers_vars == <<net_group, layers_result>>
pack_vars == <<channel_id, packed_vdma_channel_id>>
queue_vars == <<m_size, m_inner, m_items_enqueued_sema, m_items_dequeued_sema,
                m_enqueues_count, m_cant_enqueue_callback, m_can_enqueue_callback,
                shutdown_event, producer, consumer, callback_calls>>
pool_vars == <<m_desc_page_size, m_transfer_size, m_queue, m_next_enqueue_desc_offset,
               pool_call, dequeued_buffers>>
wrapper_vars == <<m_is_aborted, is_stream_enabled, wrapper_call>>
core_op_vars == <<core_op_pc, core_op_status, state_machine_enabled, host_resources,
                  pending_transfers, deactivation>>
runtime_vars == <<queue_vars, pool_vars, wrapper_vars, core_op_vars>>
compile_vars == <<network_group, compile_pc, context_index, pending_layers, pending_frees,
                  operation_index, resources_vars, fw_managed_channels, compile_status,
                  wired, acquired, freed, compiled>>

(***************************************************************************)
(* The inputs: ProtoHEFActions and operations                              *)
(***************************************************************************)
ProtoWriteDataCcw(cfg_channel_index) ==
    [action_case |-> "kWriteDataCcw", cfg_channel_index |-> cfg_channel_index,
     connection_type |-> "PROTO__EDGE_CONNECTION_TYPE__BOUNDARY"]
ProtoDisableLcu ==
    [action_case |-> "kDisableLcu", cfg_channel_index |-> 0,
     connection_type |-> "PROTO__EDGE_CONNECTION_TYPE__BOUNDARY"]
ProtoAllowInputDataflow(connection_type) ==
    [action_case |-> "kAllowInputDataflow", cfg_channel_index |-> 0,
     connection_type |-> connection_type]

ProtoActions ==
    { ProtoWriteDataCcw(i) : i \in 0..(MaxCfgChannels - 1) }
    \cup { ProtoDisableLcu,
           ProtoAllowInputDataflow("PROTO__EDGE_CONNECTION_TYPE__BOUNDARY"),
           ProtoAllowInputDataflow("PROTO__EDGE_CONNECTION_TYPE__DDR") }

SeqsUpTo(S, n) == UNION { [1..k -> S] : k \in 0..n }

\* every operation of at most MaxActions actions
ShortOperations == SeqsUpTo(ProtoActions, MaxActions)

\* operations with one long run of a compressible action, of a length around
\* the largest chunk, between two short runs of another compressible action
LongRunLengths ==
    { UINT8_MAX - 1, UINT8_MAX, UINT8_MAX + 1, UINT8_MAX + 2, UINT8_MAX + 45,
      2 * UINT8_MAX, 2 * UINT8_MAX + 1 }
Compressible == { ProtoDisableLcu, ProtoAllowInputDataflow("PROTO__EDGE_CONNECTION_TYPE__BOUNDARY") }
LongOperations ==
    { [i \in 1..(pre + n + post) |-> IF i > pre /\ i <= pre + n THEN a ELSE b] :
        n \in LongRunLengths, pre \in {0, 2}, post \in {0, 2},
        a \in Compressible, b \in Compressible }

(***************************************************************************)
(* parse_actions_in_operation, step by step                                *)
(***************************************************************************)
\* the preliminary context, which is filled before the dynamic context 0
PreliminaryContext == 0 - 1

\* create_resources_manager has not been called
NotCompiling ==
    /\ compile_pc = "create_resources_manager"
    /\ context_index = PreliminaryContext
    /\ pending_layers = <<>>
    /\ pending_frees = <<>>
    /\ operation_index = 1
    /\ allocated_channels = <<>>
    /\ ddr_channels_pairs = {}
    /\ inter_context_buffers = {}
    /\ fw_managed_channels = FALSE
    /\ compile_status = "HAILO_UNINITIALIZED"
    /\ wired = <<>>
    /\ acquired = {}
    /\ freed = <<>>
    /\ compiled = <<>>

\* no function that creates a repeated group has been called
NoRepeatedCall == [function |-> "none"]
NotCalled == Expected("HAILO_UNINITIALIZED", NoValue)
NotRepeating ==
    /\ repeated_call = NoRepeatedCall
    /\ repeated_result = NotCalled

\* no function that parses the edge layers has been called
NotParsed == [function |-> "none", status |-> "HAILO_UNINITIALIZED"]
NoLayers ==
    /\ net_group = <<>>
    /\ layers_result = NotParsed

\* pack_vdma_channel_id has not been called
NoChannelId == [engine_index |-> 0, channel_index |-> 0]
NotPacked == 0 - 1
NotPacking ==
    /\ channel_id = NoChannelId
    /\ packed_vdma_channel_id = NotPacked

NoNetworkGroup == network_group = [contexts |-> <<>>]

\* no SpscQueue has been created
NoThread == [pc |-> "none"]
NoQueue ==
    /\ m_size = 0
    /\ m_inner = <<>>
    /\ m_items_enqueued_sema = 0
    /\ m_items_dequeued_sema = 0
    /\ m_enqueues_count = 0
    /\ m_cant_enqueue_callback = FALSE
    /\ m_can_enqueue_callback = FALSE
    /\ shutdown_event = FALSE
    /\ producer = NoThread
    /\ consumer = NoThread
    /\ callback_calls = <<>>

\* no CircularStreamBufferPool has been created
NoCall == [function |-> "none"]
NoPool ==
    /\ m_desc_page_size = 0
    /\ m_transfer_size = 0
    /\ m_queue = [head |-> 0, tail |-> 0, size |-> 0, size_mask |-> 0]
    /\ m_next_enqueue_desc_offset = 0
    /\ pool_call = NoCall
    /\ dequeued_buffers = <<>>

\* no stream wrapper has been created
NoWrapper ==
    /\ m_is_aborted = <<>>
    /\ is_stream_enabled = <<>>
    /\ wrapper_call = <<>>

\* no VdmaConfigCoreOp has been created
NoCoreOp ==
    /\ core_op_pc = [function |-> "none", step |-> "none"]
    /\ core_op_status = "HAILO_UNINITIALIZED"
    /\ state_machine_enabled = FALSE
    /\ host_resources = {}
    /\ pending_transfers = {}
    /\ deactivation = {}

NotRunning ==
    /\ NoQueue
    /\ NoPool
    /\ NoWrapper
    /\ NoCoreOp

NotStarted ==
    /\ configuration_actions = <<>>
    /\ pc = "create"
    /\ status = "HAILO_UNINITIALIZED"

NoDdrCheck ==
    /\ context_ddr_input_layers = <<>>
    /\ context_ddr_output_layers = <<>>
    /\ ddr_pairs_status = "HAILO_UNINITIALIZED"

Init ==
    /\ \/ /\ operation \in ShortOperations
          /\ support_pre_fetch \in BOOLEAN
          /\ is_preliminary_context \in BOOLEAN
          /\ is_first_operation \in BOOLEAN
          /\ preliminary_run_asap \in BOOLEAN
          /\ ddr_channel_pairs \in SeqsUpTo(BOOLEAN, MaxDdrPairs)
       \/ /\ operation \in LongOperations
          /\ support_pre_fetch = TRUE
          /\ is_preliminary_context = FALSE
          /\ is_first_operation \in BOOLEAN
          /\ preliminary_run_asap = FALSE
          /\ ddr_channel_pairs = <<>>
    /\ NotStarted
    /\ NoDdrCheck
    /\ NotCompiling
    /\ NotRunning
    /\ NotRepeating
    /\ NoLayers
    /\ NotPacking
    /\ NoNetworkGroup

\* the first loop: ContextSwitchConfigAction::create for every action of the
\* operation, in order; the first failure is returned
CreateActions ==
    /\ pc = "create"
    /\ LET created == [i \in DOMAIN operation |->
                        ContextSwitchConfigAction_create(operation[i], i, MaxCfgChannels)]
           failed == { i \in DOMAIN created : created[i].status # "HAILO_SUCCESS" }
       IN  IF failed = {}
           THEN /\ configuration_actions' = [i \in DOMAIN created |-> created[i].value]
                /\ pc' = "add_fetch_config_actions"
                /\ UNCHANGED status
           ELSE /\ status' = created[CHOOSE i \in failed : \A j \in failed : i <= j].status
                /\ pc' = "failed"
                /\ UNCHANGED configuration_actions
    /\ UNCHANGED <<operation_vars, ddr_vars, compile_vars, repeated_vars, layers_vars, pack_vars, runtime_vars>>

\* the outcome of one of the three rewrites: CHECK_SUCCESS(status)
Rewritten(res, next_pc) ==
    /\ configuration_actions' = res.value
    /\ IF res.status = "HAILO_SUCCESS"
       THEN pc' = next_pc /\ UNCHANGED status
       ELSE pc' = "failed" /\ status' = res.status
    /\ UNCHANGED <<operation_vars, ddr_vars, compile_vars, repeated_vars, layers_vars, pack_vars, runtime_vars>>

AddFetchConfigActions ==
    /\ pc = "add_fetch_config_actions"
    /\ Rewritten(add_fetch_config_actions(configuration_actions, operation, MaxCfgChannels,
                    support_pre_fetch),
                 "handle_edge_layer_activation_actions")

\* parse_actions_in_operation with a slip: handle_repeated_actions is called
\* before handle_edge_layer_activation_actions
HandleEdgeLayerActivationActions_after_repeated ==
    /\ pc = "handle_edge_layer_activation_actions"
    /\ LET compressed == handle_repeated_actions(configuration_actions)
       IN  IF compressed.status # "HAILO_SUCCESS"
           THEN Rewritten(compressed, "handle_repeated_actions")
           ELSE Rewritten(handle_edge_layer_activation_actions(compressed.value,
                            ddr_channel_pairs, is_preliminary_context, preliminary_run_asap,
                            is_first_operation),
                          "handle_repeated_actions")

HandleEdgeLayerActivationActions ==
    /\ pc = "handle_edge_layer_activation_actions"
    /\ Rewritten(handle_edge_layer_activation_actions(configuration_actions, ddr_channel_pairs,
                    is_preliminary_context, preliminary_run_asap, is_first_operation),
                 "handle_repeated_actions")

HandleRepeatedActions ==
    /\ pc = "handle_repeated_actions"
    /\ Rewritten(handle_repeated_actions(configuration_actions), "execute")

Next ==
    \/ CreateActions
    \/ AddFetchConfigActions
    \/ HandleEdgeLayerActivationActions
    \/ HandleRepeatedActions

Spec == Init /\ [][Next]_vars

(***************************************************************************)
(* check_ddr_pairs_match on the ddr layers of one context                  *)
(***************************************************************************)
\* bytes-per-buffer and total-buffers-per-frame of a ddr input layer; a ddr
\* output layer of the enumerated contexts has the first of them
DdrGeometries == { <<64, 4>>, <<128, 4>>, <<64, 8>> }
DdrLayerInfo(stream_index, dst_stream_index, geometry) ==
    [stream_index |-> stream_index, dst_stream_index |-> dst_stream_index,
     core_bytes_per_buffer |-> geometry[1], total_buffers_per_frame |-> geometry[2]]

DdrInputLayers ==
    { DdrLayerInfo(s, 0, g) : s \in 0..MaxStreamIndex, g \in DdrGeometries }
DdrOutputLayers ==
    { DdrLayerInfo(s, d, <<64, 4>>) : s \in 0..MaxStreamIndex, d \in 0..MaxStreamIndex }

InitDdr ==
    /\ context_ddr_input_layers \in SeqsUpTo(DdrInputLayers, MaxDdrLayers)
    /\ context_ddr_output_layers \in SeqsUpTo(DdrOutputLayers, MaxDdrLayers)
    /\ ddr_pairs_status = "HAILO_UNINITIALIZED"
    /\ operation = <<>>
    /\ support_pre_fetch = FALSE
    /\ is_preliminary_context = FALSE
    /\ is_first_operation = FALSE
    /\ preliminary_run_asap = FALSE
    /\ ddr_channel_pairs = <<>>
    /\ NotStarted
    /\ NotCompiling
    /\ NotRunning
    /\ NotRepeating
    /\ NoLayers
    /\ NotPacking
    /\ NoNetworkGroup

\* the call of check_ddr_pairs_match in HefUtils::get_all_layers_info
CheckDdrPairsMatch ==
    /\ ddr_pairs_status = "HAILO_UNINITIALIZED"
    /\ ddr_pairs_status' = check_ddr_pairs_match(context_ddr_input_layers,
                                context_ddr_output_layers)
    /\ UNCHANGED <<operation_vars, configuration_actions, pc, status,
                   context_ddr_input_layers, context_ddr_output_layers, compile_vars,
                   repeated_vars, layers_vars, pack_vars, runtime_vars>>

NextDdr == CheckDdrPairsMatch

SpecDdr == InitDdr /\ [][NextDdr]_vars

(***************************************************************************)
(* Hef::Impl::create_resources_manager, step by step                       *)
(***************************************************************************)
MaxContexts == 2

\* the largest number of contexts of a network group, which is
\* CONTROL_PROTOCOL__MAX_TOTAL_CONTEXTS, scaled to the modelled network groups
MAX_CONTEXTS_COUNT == MaxContexts

\* an operation with one run of new-input-data actions, and one without
InputOperation == << ProtoAllowInputDataflow("PROTO__EDGE_CONNECTION_TYPE__BOUNDARY") >>
PlainOperation == << ProtoDisableLcu >>
\* an operation with a write to a configuration channel that does not exist
UnbuildableOperation == << ProtoWriteDataCcw(MaxCfgChannels) >>

ContextPlan(edge_layers, operations) ==
    [metadata |-> [edge_layers |-> edge_layers], operations |-> operations]

BoundaryLayers == { <<"BOUNDARY", H2D>>, <<"BOUNDARY", D2H>> }
DdrLayers == { <<"DDR", D2H>>, <<"DDR", H2D>> }

\* the contexts: their edge layers (the ddr layers in checked pairs) and
\* their operations
ContextPlans ==
    { ContextPlan(BoundaryLayers, << InputOperation >>),
      ContextPlan(BoundaryLayers, << InputOperation, PlainOperation >>),
      ContextPlan(BoundaryLayers, << PlainOperation >>),
      ContextPlan(BoundaryLayers, << InputOperation, UnbuildableOperation >>),
      ContextPlan({ <<"INTER_CONTEXT", D2H>> }, << InputOperation >>),
      ContextPlan({ <<"BOUNDARY", H2D>>, <<"INTER_CONTEXT", D2H>> }, << InputOperation >>),
      ContextPlan({ <<"INTER_CONTEXT", H2D>>, <<"BOUNDARY", D2H>> }, << InputOperation >>),
      ContextPlan(DdrLayers \cup BoundaryLayers, << InputOperation >>),
      ContextPlan(DdrLayers \cup BoundaryLayers
                    \cup { <<"INTER_CONTEXT", D2H>>, <<"INTER_CONTEXT", H2D>> },
                  << InputOperation >>),
      ContextPlan({}, << InputOperation >>) }

PreliminaryConfigs == { << InputOperation >>, << PlainOperation >> }

NetworkGroup(contexts, preliminary_config, padded_ddr_buffers, batch_size_fits) ==
    [contexts |-> contexts, preliminary_config |-> preliminary_config,
     padded_ddr_buffers |-> padded_ddr_buffers, batch_size_fits |-> batch_size_fits]

\* network groups with one context more than MAX_CONTEXTS_COUNT, under both
\* results of the batch size check
OversizedNetworkGroups ==
    { NetworkGroup(contexts, preliminary_config, TRUE, batch_size_fits) :
        contexts \in [1..(MAX_CONTEXTS_COUNT + 1) ->
                        { ContextPlan(BoundaryLayers, << InputOperation >>),
                          ContextPlan({}, << InputOperation >>) }],
        preliminary_config \in PreliminaryConfigs, batch_size_fits \in BOOLEAN }

\* a network group of one context more than a uint8_t context index counts
WrappingNetworkGroups ==
    { NetworkGroup([i \in 1..(UINT8_MAX + 1) |->
                        ContextPlan({ <<"INTER_CONTEXT", D2H>> }, << InputOperation >>)],
                   << InputOperation >>, TRUE, TRUE) }

\* every network group of at most MaxContexts contexts with the current
\* features, a one-context network group with a ddr pair under every
\* combination of the padded_ddr_buffers feature and the batch size check,
\* the oversized network groups and the one that is longer than a uint8_t
\* counts
NetworkGroups ==
    { NetworkGroup(contexts, preliminary_config, TRUE, TRUE) :
        contexts \in UNION { [1..k -> ContextPlans] : k \in 1..MaxContexts },
        preliminary_config \in PreliminaryConfigs }
    \cup { NetworkGroup(<< ContextPlan(DdrLayers \cup BoundaryLayers, << InputOperation >>) >>,
                << InputOperation >>, padded_ddr_buffers, batch_size_fits) :
            padded_ddr_buffers \in BOOLEAN, batch_size_fits \in BOOLEAN }
    \cup OversizedNetworkGroups
    \cup WrappingNetworkGroups

InitCompile ==
    /\ network_group \in NetworkGroups
    /\ preliminary_run_asap \in BOOLEAN
    /\ support_pre_fetch = FALSE
    /\ operation = <<>>
    /\ is_preliminary_context = FALSE
    /\ is_first_operation = FALSE
    /\ ddr_channel_pairs = <<>>
    /\ NotStarted
    /\ NoDdrCheck
    /\ NotCompiling
    /\ NotRunning
    /\ NotRepeating
    /\ NoLayers
    /\ NotPacking

IsPreliminary == context_index = PreliminaryContext

\* the index of the context whose metadata and layer infos are used: the
\* preliminary context uses PRELIMINARY_CONTEXT_INDEX, which is 0
MetadataIndex == IF IsPreliminary THEN 0 ELSE context_index

ContextMetadata == network_group.contexts[MetadataIndex + 1].metadata

ContextOperations ==
    IF IsPreliminary THEN network_group.preliminary_config
    ELSE network_group.contexts[context_index + 1].operations

\* CHECK, CHECK_SUCCESS, CHECK_EXPECTED: the function returns the status
Failed(failure) ==
    /\ compile_pc' = "failed"
    /\ compile_status' = failure

UnchangedOperation ==
    UNCHANGED <<operation_vars, configuration_actions, pc, status, ddr_vars, network_group,
                repeated_vars, layers_vars, pack_vars, runtime_vars>>

\* StartCompile with a slip: the preliminary context is not filled
StartCompile_skipping_preliminary ==
    /\ compile_pc = "create_resources_manager"
    /\ IF ~(Len(network_group.contexts) <= MAX_CONTEXTS_COUNT)
       THEN Failed("HAILO_INVALID_HEF")
       ELSE IF ~network_group.batch_size_fits
       THEN Failed("HAILO_INVALID_ARGUMENT")
       ELSE compile_pc' = "fill_context" /\ UNCHANGED compile_status
    /\ context_index' = 0
    /\ UNCHANGED <<pending_layers, pending_frees, operation_index, resources_vars,
                   fw_managed_channels, wired, acquired, freed, compiled>>
    /\ UnchangedOperation

\* StartCompile with a slip: the number of contexts is not checked
StartCompile_of_any_contexts_size ==
    /\ compile_pc = "create_resources_manager"
    /\ IF ~network_group.batch_size_fits
       THEN Failed("HAILO_INVALID_ARGUMENT")
       ELSE compile_pc' = "fill_context" /\ UNCHANGED compile_status
    /\ context_index' = PreliminaryContext
    /\ UNCHANGED <<pending_layers, pending_frees, operation_index, resources_vars,
                   fw_managed_channels, wired, acquired, freed, compiled>>
    /\ UnchangedOperation

\* the checks at the start of create_resources_manager and add_new_context
\* for the preliminary context
StartCompile ==
    /\ compile_pc = "create_resources_manager"
    /\ IF ~(Len(network_group.contexts) <= MAX_CONTEXTS_COUNT)
       THEN Failed("HAILO_INVALID_HEF")
       ELSE IF ~network_group.batch_size_fits
       THEN Failed("HAILO_INVALID_ARGUMENT")
       ELSE compile_pc' = "fill_context" /\ UNCHANGED compile_status
    /\ context_index' = PreliminaryContext
    /\ UNCHANGED <<pending_layers, pending_frees, operation_index, resources_vars,
                   fw_managed_channels, wired, acquired, freed, compiled>>
    /\ UnchangedOperation

\* BeginContext with a slip: the edge layers are filled without the feature
BeginContext_wiring_every_context ==
    /\ compile_pc = "fill_context"
    /\ operation_index' = 1
    /\ IF ~IsPreliminary \/ preliminary_run_asap \/ TRUE
       THEN LET number_of_edge_layers == Cardinality(ContextMetadata.edge_layers)
            IN  IF ~(0 < number_of_edge_layers)
                THEN /\ Failed("HAILO_INVALID_HEF")
                     /\ UNCHANGED <<pending_layers, pending_frees, wired, acquired, freed>>
                ELSE /\ pending_layers' = edge_layers_in_wiring_order(ContextMetadata, MetadataIndex)
                     /\ pending_frees' = channel_indexes_to_free(ContextMetadata, MetadataIndex)
                     /\ wired' = <<>>
                     /\ acquired' = {}
                     /\ freed' = <<>>
                     /\ compile_pc' = "fill_edge_layers"
                     /\ UNCHANGED compile_status
       ELSE /\ compile_pc' = "parse_operations"
            /\ UNCHANGED <<compile_status, pending_layers, pending_frees, wired, acquired, freed>>
    /\ UNCHANGED <<context_index, resources_vars, fw_managed_channels, compiled>>
    /\ UnchangedOperation

\* the start of fill_preliminary_config_recepies_for_multi_context and of
\* fill_context_recepies_for_multi_context, and the checks at the start of
\* parse_and_fill_edge_layers_mapping when it is called
BeginContext ==
    /\ compile_pc = "fill_context"
    /\ operation_index' = 1
    /\ IF ~IsPreliminary \/ preliminary_run_asap
       THEN LET number_of_edge_layers == Cardinality(ContextMetadata.edge_layers)
            IN  IF ~(0 < number_of_edge_layers)
                THEN /\ Failed("HAILO_INVALID_HEF")
                     /\ UNCHANGED <<pending_layers, pending_frees, wired, acquired, freed>>
                ELSE /\ pending_layers' = edge_layers_in_wiring_order(ContextMetadata, MetadataIndex)
                     /\ pending_frees' = channel_indexes_to_free(ContextMetadata, MetadataIndex)
                     /\ wired' = <<>>
                     /\ acquired' = {}
                     /\ freed' = <<>>
                     /\ compile_pc' = "fill_edge_layers"
                     /\ UNCHANGED compile_status
       ELSE /\ compile_pc' = "parse_operations"
            /\ UNCHANGED <<compile_status, pending_layers, pending_frees, wired, acquired, freed>>
    /\ UNCHANGED <<context_index, resources_vars, fw_managed_channels, compiled>>
    /\ UnchangedOperation

\* one iteration of one of the six for loops that fill the layers
FillEdgeLayer ==
    /\ compile_pc = "fill_edge_layers"
    /\ pending_layers # <<>>
    /\ LET res == fill_edge_layer(
                    Resources(allocated_channels, ddr_channels_pairs, inter_context_buffers),
                    Head(pending_layers), network_group.padded_ddr_buffers)
       IN  /\ allocated_channels' = res.resources.allocated_channels
           /\ ddr_channels_pairs' = res.resources.ddr_channels_pairs
           /\ inter_context_buffers' = res.resources.inter_context_buffers
           /\ acquired' = acquired \cup (DOMAIN res.resources.allocated_channels
                                            \ DOMAIN allocated_channels)
           /\ IF res.status # "HAILO_SUCCESS"
              THEN Failed(res.status) /\ UNCHANGED <<pending_layers, wired>>
              ELSE /\ pending_layers' = Tail(pending_layers)
                   /\ wired' = Append(wired, Head(pending_layers))
                   /\ UNCHANGED <<compile_pc, compile_status>>
    /\ UNCHANGED <<context_index, pending_frees, operation_index, fw_managed_channels,
                   freed, compiled>>
    /\ UnchangedOperation

\* one call of free_channel_index in the for loops at the end of the wiring
FreeChannelIndex ==
    /\ compile_pc = "fill_edge_layers"
    /\ pending_layers = <<>>
    /\ pending_frees # <<>>
    /\ LET res == free_channel_index(allocated_channels, Head(pending_frees))
       IN  /\ allocated_channels' = res.allocated_channels
           /\ IF res.status # "HAILO_SUCCESS"
              THEN Failed(res.status) /\ UNCHANGED <<pending_frees, freed>>
              ELSE /\ pending_frees' = Tail(pending_frees)
                   /\ freed' = Append(freed, Head(pending_frees))
                   /\ UNCHANGED <<compile_pc, compile_status>>
    /\ UNCHANGED <<context_index, pending_layers, operation_index, ddr_channels_pairs,
                   inter_context_buffers, fw_managed_channels, wired, acquired, compiled>>
    /\ UnchangedOperation

\* parse_and_fill_edge_layers_mapping returns HAILO_SUCCESS
FinishWiring ==
    /\ compile_pc = "fill_edge_layers"
    /\ pending_layers = <<>>
    /\ pending_frees = <<>>
    /\ compile_pc' = "parse_operations"
    /\ UNCHANGED <<context_index, pending_layers, pending_frees, operation_index,
                   resources_vars, fw_managed_channels, compile_status, wired, acquired, freed, compiled>>
    /\ UnchangedOperation

\* the ddr channel pairs of the context, each given by its
\* need_manual_credit_management()
get_ddr_channel_pairs_per_context(pairs, context) ==
    [i \in 1..Cardinality({ info \in pairs : info.context_index = context }) |-> TRUE]

\* one iteration of the for loop over the operations of the context with a
\* slip: the status of parse_actions_in_operation is not checked
ParseActionsInOperation_unchecked ==
    /\ compile_pc = "parse_operations"
    /\ operation_index <= Len(ContextOperations)
    /\ operation_index' = operation_index + 1
    /\ UNCHANGED <<compile_pc, compile_status>>
    /\ UNCHANGED <<context_index, pending_layers, pending_frees, resources_vars,
                   fw_managed_channels, wired, acquired, freed, compiled>>
    /\ UnchangedOperation

\* one iteration of the for loop over the operations of the context
ParseActionsInOperation ==
    /\ compile_pc = "parse_operations"
    /\ operation_index <= Len(ContextOperations)
    /\ LET first_operation == operation_index = 1
           res == parse_actions_in_operation(ContextOperations[operation_index],
                    IsPreliminary, first_operation,
                    get_ddr_channel_pairs_per_context(ddr_channels_pairs, MetadataIndex),
                    preliminary_run_asap, support_pre_fetch)
       IN  IF res # "HAILO_SUCCESS"
           THEN Failed(res) /\ UNCHANGED operation_index
           ELSE /\ operation_index' = operation_index + 1
                /\ UNCHANGED <<compile_pc, compile_status>>
    /\ UNCHANGED <<context_index, pending_layers, pending_frees, resources_vars,
                   fw_managed_channels, wired, acquired, freed, compiled>>
    /\ UnchangedOperation

\* the end of a context with a slip: create_fw_managed_vdma_channels is called
\* after the first dynamic context
FinishContext_creating_channels_early ==
    /\ compile_pc = "parse_operations"
    /\ operation_index > Len(ContextOperations)
    /\ compiled' = Append(compiled, context_index)
    /\ IF context_index + 1 < 1
       THEN compile_pc' = "fill_context" /\ context_index' = context_index + 1
       ELSE compile_pc' = "create_fw_managed_vdma_channels" /\ UNCHANGED context_index
    /\ UNCHANGED <<pending_layers, pending_frees, operation_index, resources_vars,
                   fw_managed_channels, compile_status, wired, acquired, freed>>
    /\ UnchangedOperation

\* the fill function of the context returns HAILO_SUCCESS: the for loop of
\* create_resources_manager goes to the next dynamic context, or ends
FinishContext ==
    /\ compile_pc = "parse_operations"
    /\ operation_index > Len(ContextOperations)
    /\ compiled' = Append(compiled, context_index)
    /\ LET next_context_index == IF IsPreliminary THEN 0 ELSE ToUint8(context_index + 1)
       IN  IF next_context_index < Len(network_group.contexts)
           THEN compile_pc' = "fill_context" /\ context_index' = next_context_index
           ELSE compile_pc' = "create_fw_managed_vdma_channels" /\ UNCHANGED context_index
    /\ UNCHANGED <<pending_layers, pending_frees, operation_index, resources_vars,
                   fw_managed_channels, compile_status, wired, acquired, freed>>
    /\ UnchangedOperation

\* create_fw_managed_vdma_channels, which the allocator may fail, and the
\* return of the resources manager, whose allocation may fail
CreateFwManagedVdmaChannels ==
    /\ compile_pc = "create_fw_managed_vdma_channels"
    /\ \E created \in BOOLEAN, resources_manager_ptr \in BOOLEAN :
            IF ~created
            THEN Failed("HAILO_INTERNAL_FAILURE") /\ UNCHANGED fw_managed_channels
            ELSE /\ fw_managed_channels' = TRUE
                 /\ IF ~resources_manager_ptr
                    THEN Failed("HAILO_OUT_OF_HOST_MEMORY")
                    ELSE compile_pc' = "done" /\ compile_status' = "HAILO_SUCCESS"
    /\ UNCHANGED <<context_index, pending_layers, pending_frees, operation_index,
                   resources_vars, wired, acquired, freed, compiled>>
    /\ UnchangedOperation

NextCompile ==
    \/ StartCompile
    \/ BeginContext
    \/ FillEdgeLayer
    \/ FreeChannelIndex
    \/ FinishWiring
    \/ ParseActionsInOperation
    \/ FinishContext
    \/ CreateFwManagedVdmaChannels

SpecCompile == InitCompile /\ [][NextCompile]_vars

(***************************************************************************)
(* create_resources_manager on network groups whose ddr and inter-context  *)
(* layers have every stream index and every connected stream index        *)
(***************************************************************************)
\* the ddr layer infos as check_ddr_pairs_match reads them; the layers have
\* the same buffers
AsDdrLayerInfos(layer_infos) ==
    [i \in DOMAIN layer_infos |->
        DdrLayerInfo(layer_infos[i].stream_index, layer_infos[i].dst_stream_index, <<64, 4>>)]

\* HefUtils::get_all_layers_info has accepted the ddr layers of the context:
\* the metadata create_resources_manager is given was built by it
AcceptedByDdrCheck(metadata, index_of_context) ==
    check_ddr_pairs_match(
        AsDdrLayerInfos(get_layer_infos(metadata, "DDR", H2D, index_of_context)),
        AsDdrLayerInfos(get_layer_infos(metadata, "DDR", D2H, index_of_context)))
      = "HAILO_SUCCESS"

\* at most n edge layers of a set, no two of them with one sys_index
EdgeLayersUpTo(edge_layers, n) ==
    { layers \in SUBSET edge_layers :
        /\ Cardinality(layers) <= n
        /\ \A a \in layers : \A b \in layers : a[3] = b[3] => a = b }

\* the ddr layers of context k: their connected context is their own
DdrOutputEdgeLayers(k) ==
    { <<"DDR", D2H, sys_index, k, connected_sys_index>> :
        sys_index \in 0..MaxStreamIndex, connected_sys_index \in 0..MaxStreamIndex }
DdrInputEdgeLayers(k) ==
    { <<"DDR", H2D, sys_index, k, connected_sys_index>> :
        sys_index \in 0..MaxStreamIndex, connected_sys_index \in 0..MaxStreamIndex }

\* the contexts with ddr layers that the pairing check accepts
DdrContextPlans(k) ==
    { ContextPlan(layers[1] \cup layers[2], << InputOperation >>) :
        layers \in { l \in EdgeLayersUpTo(DdrOutputEdgeLayers(k), MaxDdrLayers)
                            \X EdgeLayersUpTo(DdrInputEdgeLayers(k), MaxDdrLayers) :
                        /\ l[1] \cup l[2] # {}
                        /\ AcceptedByDdrCheck([edge_layers |-> l[1] \cup l[2]], k) } }

\* the inter-context layers of context k: an output layer of any stream
\* index, an input layer connected to any stream index of either context
InterContextOutputEdgeLayers(k) ==
    { <<"INTER_CONTEXT", D2H, sys_index, k, 0>> : sys_index \in 0..MaxStreamIndex }
InterContextInputEdgeLayers ==
    { <<"INTER_CONTEXT", H2D, 0, connected_context_index, connected_sys_index>> :
        connected_context_index \in 0..1, connected_sys_index \in 0..MaxStreamIndex }

\* the contexts with at most one inter-context layer of each direction
InterContextPlans(k) ==
    { ContextPlan(layers[1] \cup layers[2], << InputOperation >>) :
        layers \in { l \in EdgeLayersUpTo(InterContextOutputEdgeLayers(k), 1)
                            \X EdgeLayersUpTo(InterContextInputEdgeLayers, 1) :
                        l[1] \cup l[2] # {} } }

\* one context with ddr layers, or two contexts with inter-context layers
WiringNetworkGroups ==
    { NetworkGroup(<< context >>, << InputOperation >>, TRUE, TRUE) :
        context \in DdrContextPlans(0) }
    \cup { NetworkGroup(<< first, second >>, << InputOperation >>, TRUE, TRUE) :
            first \in InterContextPlans(0), second \in InterContextPlans(1) }

InitWiring ==
    /\ network_group \in WiringNetworkGroups
    /\ preliminary_run_asap \in BOOLEAN
    /\ support_pre_fetch = FALSE
    /\ operation = <<>>
    /\ is_preliminary_context = FALSE
    /\ is_first_operation = FALSE
    /\ ddr_channel_pairs = <<>>
    /\ NotStarted
    /\ NoDdrCheck
    /\ NotCompiling
    /\ NotRunning
    /\ NotRepeating
    /\ NoLayers
    /\ NotPacking

SpecWiring == InitWiring /\ [][NextCompile]_vars

(***************************************************************************)
(* The construction of actions from every discriminant, for the           *)
(* multi-context and for the single-context network groups                 *)
(***************************************************************************)
MaxCreateActions == 2

\* ProtoHEFAction::action_case(): the cases of the oneof, and ACTION_NOT_SET
\* for a message whose oneof holds none of them
ActionCases ==
    { "kWriteDataCcw", "kWriteData", "kDisableLcu", "kEnableLcu", "kEnableSequencer",
      "kNone", "kWaitForSeqeuncer", "kWriteCompressedData", "kAllowInputDataflow",
      "kWaitForModuleConfigDone", "ACTION_NOT_SET" }

ProtoOfCase(action_case, is_default) ==
    [action_case |-> action_case, cfg_channel_index |-> 0,
     connection_type |-> "PROTO__EDGE_CONNECTION_TYPE__BOUNDARY", is_default |-> is_default]

AnyProtoActions ==
    { ProtoOfCase(action_case, TRUE) : action_case \in ActionCases }
        \cup { ProtoOfCase("kEnableLcu", FALSE) }

InitCreate ==
    /\ operation \in UNION { [1..k -> AnyProtoActions] : k \in 1..MaxCreateActions }
    /\ support_pre_fetch = FALSE
    /\ is_preliminary_context = FALSE
    /\ is_first_operation = FALSE
    /\ preliminary_run_asap = FALSE
    /\ ddr_channel_pairs = <<>>
    /\ configuration_actions = <<>>
    /\ pc \in {"create", "create_single_context_network_group_config"}
    /\ status = "HAILO_UNINITIALIZED"
    /\ NoDdrCheck
    /\ NotCompiling
    /\ NotRunning
    /\ NotRepeating
    /\ NoLayers
    /\ NotPacking
    /\ NoNetworkGroup

\* Hef::Impl::create_single_context_network_group_config on the operation
CreateSingleContextNetworkGroupConfig ==
    /\ pc = "create_single_context_network_group_config"
    /\ LET config_buffers == create_single_context_network_group_config(operation)
       IN  IF config_buffers = "HAILO_SUCCESS"
           THEN pc' = "configured" /\ UNCHANGED status
           ELSE pc' = "failed" /\ status' = config_buffers
    /\ UNCHANGED <<operation_vars, configuration_actions, ddr_vars, compile_vars, repeated_vars, layers_vars, pack_vars, runtime_vars>>

NextCreate ==
    \/ CreateActions
    \/ AddFetchConfigActions
    \/ HandleEdgeLayerActivationActions
    \/ HandleRepeatedActions
    \/ CreateSingleContextNetworkGroupConfig

SpecCreate == InitCreate /\ [][NextCreate]_vars

(***************************************************************************)
(* The creation of a repeated group: RepeatedAction::create and            *)
(* RepeatedHeaderAction::create                                            *)
(***************************************************************************)
MaxGroupMargin == 2

\* the numbers of actions: the few smallest, and those around the largest
\* count of 8 bits
GroupSizes ==
    (0..MaxGroupMargin) \cup ((UINT8_MAX - MaxGroupMargin)..(UINT8_MAX + MaxGroupMargin))

\* actions of context_switch_actions.cpp, with the action list type and the
\* supports_repeated_block() of their classes; the last is a RepeatedAction
SubActions ==
    { SubAction("None", ACTION_TYPE_COUNT, FALSE),
      SubAction("WriteDataCcw", ACTION_TYPE_COUNT, FALSE),
      SubAction("AddCcwBurst", "CONTEXT_SWITCH_DEFS__ACTION_TYPE_FETCH_CCW_BURSTS", FALSE),
      SubAction("DisableLcu", "CONTEXT_SWITCH_DEFS__ACTION_TYPE_DISABLE_LCU", TRUE),
      SubAction("DdrPairInfo", "CONTEXT_SWITCH_DEFS__ACTION_TYPE_ADD_DDR_PAIR_INFO", TRUE),
      RepeatedAction_create(
        << SubAction("DisableLcu", "CONTEXT_SWITCH_DEFS__ACTION_TYPE_DISABLE_LCU", TRUE),
           SubAction("DisableLcu", "CONTEXT_SWITCH_DEFS__ACTION_TYPE_DISABLE_LCU", TRUE) >>).value }

\* the action list types RepeatedHeaderAction::create is given
SubActionTypes ==
    { ACTION_ADD_REPEATED, ACTION_COUNT,
      "CONTROL_PROTOCOL__CONTEXT_SWITCH_ACTION_DISABLE_LCU",
      "CONTROL_PROTOCOL__CONTEXT_SWITCH_ACTION_TRIGGER_NEW_DATA_FROM_DATA_INPUT",
      "CONTROL_PROTOCOL__CONTEXT_SWITCH_ACTION_ADD_DDR_PAIR_INFO" }

\* the calls: RepeatedAction::create with a vector of actions of one class
\* (serialize asserts that every action has the action list type of the
\* first), RepeatedHeaderAction::create with a type and a uint8_t count
RepeatedCalls ==
    { [function |-> "RepeatedAction::create", actions |-> [i \in 1..n |-> action]] :
        n \in GroupSizes, action \in SubActions }
    \cup { [function |-> "RepeatedHeaderAction::create",
            sub_action_type |-> sub_action_type, num_actions |-> num_actions] :
            sub_action_type \in SubActionTypes,
            num_actions \in { n \in GroupSizes : IS_FIT_IN_UINT8(n) } }

InitRepeated ==
    /\ repeated_call \in RepeatedCalls
    /\ repeated_result = NotCalled
    /\ operation = <<>>
    /\ support_pre_fetch = FALSE
    /\ is_preliminary_context = FALSE
    /\ is_first_operation = FALSE
    /\ preliminary_run_asap = FALSE
    /\ ddr_channel_pairs = <<>>
    /\ NotStarted
    /\ NoDdrCheck
    /\ NotCompiling
    /\ NotRunning
    /\ NoNetworkGroup
    /\ NoLayers
    /\ NotPacking

UnchangedButRepeated ==
    UNCHANGED <<operation_vars, configuration_actions, pc, status, ddr_vars, compile_vars,
                repeated_call, layers_vars, pack_vars, runtime_vars>>

CreateRepeatedAction ==
    /\ repeated_call.function = "RepeatedAction::create"
    /\ repeated_result = NotCalled
    /\ repeated_result' = RepeatedAction_create(repeated_call.actions)
    /\ UnchangedButRepeated

CreateRepeatedHeaderAction ==
    /\ repeated_call.function = "RepeatedHeaderAction::create"
    /\ repeated_result = NotCalled
    /\ repeated_result' = RepeatedHeaderAction_create(repeated_call.sub_action_type,
                                repeated_call.num_actions)
    /\ UnchangedButRepeated

NextRepeated ==
    \/ CreateRepeatedAction
    \/ CreateRepeatedHeaderAction

SpecRepeated == InitRepeated /\ [][NextRepeated]_vars

(***************************************************************************)
(* HefUtils::get_all_layers_info and validate_net_group_unique_layer_names *)
(***************************************************************************)
MaxEdgeLayers == 2

BOUNDARY == "PROTO__EDGE_CONNECTION_TYPE__BOUNDARY"
INTERMEDIATE == "PROTO__EDGE_CONNECTION_TYPE__INTERMEDIATE"
DDR == "PROTO__EDGE_CONNECTION_TYPE__DDR"
LAYER_TYPE_INFO == "PROTO__EDGE_LAYER_TYPE__INFO"
LAYER_TYPE_MUX == "PROTO__EDGE_LAYER_TYPE__MUX"
DEVICE_TO_HOST == "PROTO__EDGE_LAYER_DIRECTION__DEVICE_TO_HOST"
HOST_TO_DEVICE == "PROTO__EDGE_LAYER_DIRECTION__HOST_TO_DEVICE"

\* a ProtoHEFEdgeLayer: the fields of its context_switch_info and of its
\* layer_info or layer_mux that the parsing of the layers compares
ProtoEdgeLayer(edge_connection_type, edge_layer_type, direction, name, sys_index, connected_sys_index) ==
    [edge_connection_type |-> edge_connection_type, edge_layer_type |-> edge_layer_type,
     direction |-> direction, name |-> name, sys_index |-> sys_index,
     connected_sys_index |-> connected_sys_index]

StreamDirection(layer) == IF layer.direction = DEVICE_TO_HOST THEN D2H ELSE H2D

\* get_boundary_layer_info, with fill_layer_info and fill_mux_info
get_boundary_layer_info(index_of_context, layer) ==
    IF ~(layer.edge_connection_type = BOUNDARY)
    THEN Expected("HAILO_INTERNAL_FAILURE", NoValue)
    ELSE IF layer.edge_layer_type \notin {LAYER_TYPE_INFO, LAYER_TYPE_MUX}
    THEN Expected("HAILO_INTERNAL_FAILURE", NoValue)
    ELSE IF ~IS_FIT_IN_UINT8(layer.sys_index)
    THEN Expected("HAILO_INVALID_HEF", NoValue)
    ELSE Expected("HAILO_SUCCESS",
            [name |-> layer.name, stream_index |-> layer.sys_index,
             is_mux |-> layer.edge_layer_type = LAYER_TYPE_MUX,
             context_index |-> index_of_context, direction |-> StreamDirection(layer)])

get_inter_context_layer_info(index_of_context, layer) ==
    IF ~(layer.edge_layer_type = LAYER_TYPE_INFO)
    THEN Expected("HAILO_INVALID_HEF", NoValue)
    ELSE IF ~IS_FIT_IN_UINT8(layer.sys_index) \/ ~IS_FIT_IN_UINT8(layer.connected_sys_index)
    THEN Expected("HAILO_INVALID_HEF", NoValue)
    ELSE Expected("HAILO_SUCCESS",
            [name |-> layer.name, stream_index |-> layer.sys_index,
             context_index |-> index_of_context, direction |-> StreamDirection(layer),
             src_stream_index |-> IF layer.direction = HOST_TO_DEVICE
                                  THEN layer.connected_sys_index ELSE layer.sys_index,
             dst_stream_index |-> IF layer.direction = HOST_TO_DEVICE
                                  THEN layer.sys_index ELSE layer.connected_sys_index])

\* get_ddr_layer_info; the layers have one connected context, which is their
\* own, and the same buffers
get_ddr_layer_info(index_of_context, layer) ==
    IF ~(layer.edge_layer_type = LAYER_TYPE_INFO)
    THEN Expected("HAILO_INVALID_HEF", NoValue)
    ELSE IF ~IS_FIT_IN_UINT8(layer.sys_index) \/ ~IS_FIT_IN_UINT8(layer.connected_sys_index)
    THEN Expected("HAILO_INVALID_HEF", NoValue)
    ELSE Expected("HAILO_SUCCESS",
            [name |-> layer.name, stream_index |-> layer.sys_index,
             context_index |-> index_of_context, direction |-> StreamDirection(layer),
             core_bytes_per_buffer |-> 64, total_buffers_per_frame |-> 4,
             src_stream_index |-> IF layer.direction = HOST_TO_DEVICE
                                  THEN layer.connected_sys_index ELSE layer.sys_index,
             dst_stream_index |-> IF layer.direction = HOST_TO_DEVICE
                                  THEN layer.sys_index ELSE layer.connected_sys_index])

\* the vectors a fill function of a kind of layer emplaces to
ContextLayers(layer_name, inputs, outputs) ==
    [layer_name |-> layer_name, inputs |-> inputs, outputs |-> outputs]

\* the emplace_back at the end of the three fill functions
emplace_by_direction(emplaced, layer_info, layer_name, inputs, outputs) ==
    [status |-> emplaced,
     value |-> IF layer_info.direction = H2D
               THEN ContextLayers(layer_name, Append(inputs, layer_info), outputs)
               ELSE ContextLayers(layer_name, inputs, Append(outputs, layer_info))]

\* fill_boundary_layers_info with a slip: the name of the layer is not
\* compared with the names parsed
fill_boundary_layers_info_of_any_name(index_of_context, layer, layer_name, inputs, outputs) ==
    LET layer_info == get_boundary_layer_info(index_of_context, layer)
    IN  IF layer_info.status # "HAILO_SUCCESS"
        THEN Expected(layer_info.status, ContextLayers(layer_name, inputs, outputs))
        ELSE emplace_by_direction("HAILO_SUCCESS", layer_info.value,
                Append(layer_name, layer_info.value.name), inputs, outputs)

fill_boundary_layers_info(index_of_context, layer, layer_name, inputs, outputs) ==
    LET layer_info == get_boundary_layer_info(index_of_context, layer)
    IN  IF layer_info.status # "HAILO_SUCCESS"
        THEN Expected(layer_info.status, ContextLayers(layer_name, inputs, outputs))
        ELSE IF \E i \in DOMAIN layer_name : ~(layer_name[i] # layer_info.value.name)
        THEN Expected("HAILO_INVALID_HEF", ContextLayers(layer_name, inputs, outputs))
        ELSE emplace_by_direction("HAILO_SUCCESS", layer_info.value,
                Append(layer_name, layer_info.value.name), inputs, outputs)

fill_inter_context_layers_info(index_of_context, layer, inputs, outputs) ==
    LET layer_info == get_inter_context_layer_info(index_of_context, layer)
    IN  IF layer_info.status # "HAILO_SUCCESS"
        THEN Expected(layer_info.status, ContextLayers(<<>>, inputs, outputs))
        ELSE emplace_by_direction("HAILO_SUCCESS", layer_info.value, <<>>, inputs, outputs)

fill_ddr_layers_info(index_of_context, layer, inputs, outputs) ==
    LET layer_info == get_ddr_layer_info(index_of_context, layer)
    IN  IF layer_info.status # "HAILO_SUCCESS"
        THEN Expected(layer_info.status, ContextLayers(<<>>, inputs, outputs))
        ELSE emplace_by_direction("HAILO_SUCCESS", layer_info.value, <<>>, inputs, outputs)

\* the six vectors of a context, or of the network group, and the names of
\* the boundary layers parsed
NoLayerInfos ==
    [boundary_layers_name |-> <<>>,
     boundary_input_layers |-> <<>>, boundary_output_layers |-> <<>>,
     inter_context_input_layers |-> <<>>, inter_context_output_layers |-> <<>>,
     ddr_input_layers |-> <<>>, ddr_output_layers |-> <<>>]

\* the inner for loop of get_all_layers_info, from the edge layer i on
RECURSIVE context_layers_loop(_, _, _, _)
context_layers_loop(edge_layers, index_of_context, i, infos) ==
    IF i > Len(edge_layers) THEN Expected("HAILO_SUCCESS", infos)
    ELSE LET layer == edge_layers[i]
         IN  CASE layer.edge_connection_type = BOUNDARY ->
                    LET res == fill_boundary_layers_info(index_of_context, layer,
                                    infos.boundary_layers_name, infos.boundary_input_layers,
                                    infos.boundary_output_layers)
                        filled == [infos EXCEPT !.boundary_layers_name = res.value.layer_name,
                                                !.boundary_input_layers = res.value.inputs,
                                                !.boundary_output_layers = res.value.outputs]
                    IN  IF res.status # "HAILO_SUCCESS" THEN Expected(res.status, filled)
                        ELSE context_layers_loop(edge_layers, index_of_context, i + 1, filled)
               [] layer.edge_connection_type = INTERMEDIATE ->
                    LET res == fill_inter_context_layers_info(index_of_context, layer,
                                    infos.inter_context_input_layers,
                                    infos.inter_context_output_layers)
                        filled == [infos EXCEPT !.inter_context_input_layers = res.value.inputs,
                                                !.inter_context_output_layers = res.value.outputs]
                    IN  IF res.status # "HAILO_SUCCESS" THEN Expected(res.status, filled)
                        ELSE context_layers_loop(edge_layers, index_of_context, i + 1, filled)
               [] layer.edge_connection_type = DDR ->
                    LET res == fill_ddr_layers_info(index_of_context, layer,
                                    infos.ddr_input_layers, infos.ddr_output_layers)
                        filled == [infos EXCEPT !.ddr_input_layers = res.value.inputs,
                                                !.ddr_output_layers = res.value.outputs]
                    IN  IF res.status # "HAILO_SUCCESS" THEN Expected(res.status, filled)
                        ELSE context_layers_loop(edge_layers, index_of_context, i + 1, filled)
               [] OTHER -> context_layers_loop(edge_layers, index_of_context, i + 1, infos)

\* the outer for loop of get_all_layers_info, from the context at position k
\* on (its context index is k - 1); all holds the vectors of the contexts
\* parsed, and the names of the boundary layers
RECURSIVE get_all_layers_info_loop(_, _, _)
get_all_layers_info_loop(contexts, k, all) ==
    IF k > Len(contexts) THEN Expected("HAILO_SUCCESS", all)
    ELSE LET res == context_layers_loop(contexts[k], k - 1, 1,
                        [NoLayerInfos EXCEPT !.boundary_layers_name = all.boundary_layers_name])
             named == [all EXCEPT !.boundary_layers_name = res.value.boundary_layers_name]
         IN  IF res.status # "HAILO_SUCCESS" THEN Expected(res.status, named)
             ELSE IF check_ddr_pairs_match(res.value.ddr_input_layers,
                        res.value.ddr_output_layers) # "HAILO_SUCCESS"
             THEN Expected(check_ddr_pairs_match(res.value.ddr_input_layers,
                        res.value.ddr_output_layers), named)
             ELSE get_all_layers_info_loop(contexts, k + 1,
                    [boundary_layers_name |-> res.value.boundary_layers_name,
                     boundary_input_layers |->
                        Append(all.boundary_input_layers, res.value.boundary_input_layers),
                     boundary_output_layers |->
                        Append(all.boundary_output_layers, res.value.boundary_output_layers),
                     inter_context_input_layers |->
                        Append(all.inter_context_input_layers, res.value.inter_context_input_layers),
                     inter_context_output_layers |->
                        Append(all.inter_context_output_layers, res.value.inter_context_output_layers),
                     ddr_input_layers |->
                        Append(all.ddr_input_layers, res.value.ddr_input_layers),
                     ddr_output_layers |->
                        Append(all.ddr_output_layers, res.value.ddr_output_layers)])

get_all_layers_info(contexts) == get_all_layers_info_loop(contexts, 1, NoLayerInfos)

\* the edge layers of every context, in the order of the two for loops
RECURSIVE AllEdgeLayers(_)
AllEdgeLayers(contexts) ==
    IF contexts = <<>> THEN <<>> ELSE Head(contexts) \o AllEdgeLayers(Tail(contexts))

\* the two for loops of validate_net_group_unique_layer_names, from the edge
\* layer i of all on
RECURSIVE unique_layer_names_loop(_, _, _)
unique_layer_names_loop(edge_layers, i, edge_layer_names) ==
    IF i > Len(edge_layers) THEN "HAILO_SUCCESS"
    ELSE LET layer == edge_layers[i]
         IN  IF layer.edge_connection_type = BOUNDARY
             THEN IF layer.edge_layer_type \notin {LAYER_TYPE_INFO, LAYER_TYPE_MUX}
                  THEN "HAILO_INVALID_HEF"
                  ELSE IF ~(layer.name \notin edge_layer_names)
                  THEN "HAILO_INVALID_HEF"
                  ELSE unique_layer_names_loop(edge_layers, i + 1,
                            edge_layer_names \cup {layer.name})
             ELSE unique_layer_names_loop(edge_layers, i + 1, edge_layer_names)

validate_net_group_unique_layer_names(contexts) ==
    unique_layer_names_loop(AllEdgeLayers(contexts), 1, {})

LayerNames == {"layer_a", "layer_b"}

\* the edge layers: boundary layers of a name and a stream index, with a
\* layer_info, a layer_mux or neither; inter-context and ddr layers of a
\* stream index, the ddr layers with every stream index they connect to
ProtoEdgeLayers ==
    { ProtoEdgeLayer(BOUNDARY, LAYER_TYPE_INFO, direction, name, sys_index, 0) :
        direction \in {DEVICE_TO_HOST, HOST_TO_DEVICE}, name \in LayerNames,
        sys_index \in 0..MaxStreamIndex }
    \cup { ProtoEdgeLayer(BOUNDARY, edge_layer_type, HOST_TO_DEVICE, "layer_a", 0, 0) :
            edge_layer_type \in {LAYER_TYPE_MUX, "EDGE_LAYER_TYPE_NOT_SET"} }
    \cup { ProtoEdgeLayer(INTERMEDIATE, LAYER_TYPE_INFO, direction, "layer_a", sys_index, 0) :
            direction \in {DEVICE_TO_HOST, HOST_TO_DEVICE}, sys_index \in 0..MaxStreamIndex }
    \cup { ProtoEdgeLayer(INTERMEDIATE, LAYER_TYPE_MUX, HOST_TO_DEVICE, "layer_a", 0, 0) }
    \cup { ProtoEdgeLayer(DDR, LAYER_TYPE_INFO, direction, "layer_a", sys_index, connected) :
            direction \in {DEVICE_TO_HOST, HOST_TO_DEVICE}, sys_index \in 0..MaxStreamIndex,
            connected \in 0..MaxStreamIndex }

\* the network groups: of one context with at most MaxEdgeLayers edge layers,
\* and of two contexts with at most one edge layer each
ProtoNetGroups ==
    { << edge_layers >> : edge_layers \in SeqsUpTo(ProtoEdgeLayers, MaxEdgeLayers) }
    \cup { << first, second >> : first \in SeqsUpTo(ProtoEdgeLayers, 1),
                                 second \in SeqsUpTo(ProtoEdgeLayers, 1) }

InitLayers ==
    /\ net_group \in ProtoNetGroups
    /\ layers_result = NotParsed
    /\ operation = <<>>
    /\ support_pre_fetch = FALSE
    /\ is_preliminary_context = FALSE
    /\ is_first_operation = FALSE
    /\ preliminary_run_asap = FALSE
    /\ ddr_channel_pairs = <<>>
    /\ NotStarted
    /\ NoDdrCheck
    /\ NotCompiling
    /\ NotRunning
    /\ NoNetworkGroup
    /\ NotRepeating
    /\ NotPacking

UnchangedButLayers ==
    UNCHANGED <<operation_vars, configuration_actions, pc, status, ddr_vars, compile_vars,
                repeated_vars, net_group, pack_vars, runtime_vars>>

GetAllLayersInfo ==
    /\ layers_result = NotParsed
    /\ LET res == get_all_layers_info(net_group)
       IN  layers_result' = [function |-> "get_all_layers_info", status |-> res.status,
                             layers |-> res.value]
    /\ UnchangedButLayers

ValidateNetGroupUniqueLayerNames ==
    /\ layers_result = NotParsed
    /\ layers_result' = [function |-> "validate_net_group_unique_layer_names",
                         status |-> validate_net_group_unique_layer_names(net_group)]
    /\ UnchangedButLayers

NextLayers ==
    \/ GetAllLayersInfo
    \/ ValidateNetGroupUniqueLayerNames

SpecLayers == InitLayers /\ [][NextLayers]_vars

(***************************************************************************)
(* context_switch_actions.cpp: pack_vdma_channel_id                        *)
(***************************************************************************)
VDMA_CHANNELS_PER_ENGINE == 32
MAX_VDMA_ENGINES_COUNT == 3
\* CONTEXT_SWITCH_DEFS__PACKED_VDMA_CHANNEL_ID__ENGINE_INDEX_SHIFT: the channel
\* index has a field of 5 bits
ENGINE_INDEX_SHIFT == 5

\* a | b of two unsigned integers
RECURSIVE BitwiseOr(_, _)
BitwiseOr(a, b) ==
    IF a = 0 THEN b
    ELSE IF b = 0 THEN a
    ELSE (IF a % 2 = 1 \/ b % 2 = 1 THEN 1 ELSE 0) + 2 * BitwiseOr(a \div 2, b \div 2)

\* a << n of an int
ShiftLeft(a, n) == a * 2^n

\* pack_vdma_channel_id with a slip: the engine index is shifted by one bit
\* less
pack_vdma_channel_id_overlapping(id) ==
    ToUint8(BitwiseOr(id.channel_index, ShiftLeft(id.engine_index, ENGINE_INDEX_SHIFT - 1)))

pack_vdma_channel_id(id) ==
    ToUint8(BitwiseOr(id.channel_index, ShiftLeft(id.engine_index, ENGINE_INDEX_SHIFT)))

\* the channel ids of a device: an engine and a channel of the engine
VdmaChannelIds ==
    { [engine_index |-> engine_index, channel_index |-> channel_index] :
        engine_index \in 0..(MAX_VDMA_ENGINES_COUNT - 1),
        channel_index \in 0..(VDMA_CHANNELS_PER_ENGINE - 1) }

InitPack ==
    /\ channel_id \in VdmaChannelIds
    /\ packed_vdma_channel_id = NotPacked
    /\ operation = <<>>
    /\ support_pre_fetch = FALSE
    /\ is_preliminary_context = FALSE
    /\ is_first_operation = FALSE
    /\ preliminary_run_asap = FALSE
    /\ ddr_channel_pairs = <<>>
    /\ NotStarted
    /\ NoDdrCheck
    /\ NotCompiling
    /\ NotRunning
    /\ NoNetworkGroup
    /\ NotRepeating
    /\ NoLayers

PackVdmaChannelId ==
    /\ packed_vdma_channel_id = NotPacked
    /\ packed_vdma_channel_id' = pack_vdma_channel_id(channel_id)
    /\ UNCHANGED <<operation_vars, configuration_actions, pc, status, ddr_vars, compile_vars,
                   repeated_vars, layers_vars, channel_id, runtime_vars>>

NextPack == PackVdmaChannelId

SpecPack == InitPack /\ [][NextPack]_vars

(***************************************************************************)
(* Properties                                                              *)
(***************************************************************************)
IsHeader(action) == action.type = "AddRrepeated"
IsNewInputData(action) == action.type = "TriggerNewDataFromDataInput"
IsWriteCcw(action) == action.type = "WriteDataCcw"
IsFetch(action) == action.type \in {"AddCcwBurst", "CreateDescForCcw"}

\* the positions of the actions of a list that satisfy a test
Positions(list, Test(_)) == { i \in DOMAIN list : Test(list[i]) }

\* the first positions of the maximal runs of actions that satisfy a test
RunStarts(list, Test(_)) ==
    { i \in DOMAIN list : Test(list[i]) /\ (i = 1 \/ ~Test(list[i - 1])) }

\* the first positions of the maximal runs of actions of one Type
TypeRunStarts(list) ==
    { i \in DOMAIN list : i = 1 \/ list[i - 1].type # list[i].type }

\* the last positions of the maximal runs of actions of one Type
TypeRunEnds(list) ==
    { i \in DOMAIN list : i = Len(list) \/ list[i + 1].type # list[i].type }

\* the last position of the maximal run of one Type that starts at s
TypeRunEnd(list, s) ==
    LET ends == { e \in TypeRunEnds(list) : e >= s }
    IN  CHOOSE e \in ends : \A f \in ends : e <= f

\* the list without its repeated-group headers
WithoutHeaders(list) == SelectSeq(list, LAMBDA a : ~IsHeader(a))

\* the position in list of the n-th of its actions that fail a test
NthOther(list, Test(_), n) ==
    LET skipped == Positions(list, Test)
    IN  CHOOSE p \in n..(n + Cardinality(skipped)) :
            p \notin skipped /\ p - Cardinality({q \in skipped : q < p}) = n

\* the position in list of its n-th action that is no header
NthMember(list, n) == NthOther(list, IsHeader, n)

\* the number of the first action after position p that is no header
MemberAfter(list, p) == Cardinality({q \in 1..p : ~IsHeader(list[q])}) + 1

\* the members of the group of the header at position h
GroupOf(list, h) == (h + 1)..(h + list[h].num_actions)

\* handle_repeated_actions has just rewritten the list
RepeatedStep == pc = "handle_repeated_actions" /\ pc' = "execute"
AfterRepeated == pc = "execute"

EligibleOperation ==
    (is_preliminary_context /\ preliminary_run_asap)
        \/ (~is_preliminary_context /\ is_first_operation)

\* C1: pass C round trip.  In the list handle_repeated_actions produces every
\* repeated-group header is followed by the num_actions members of its group,
\* none of them a header, and deleting the headers gives back the list that
\* handle_repeated_actions was given: the same actions (but for their
\* is_in_repeated_block flag) in the same order.
C1_RoundTrip ==
    [][RepeatedStep =>
        LET out == configuration_actions'
            members == WithoutHeaders(out)
        IN  /\ \A h \in Positions(out, IsHeader) :
                    /\ h + out[h].num_actions <= Len(out)
                    /\ \A i \in GroupOf(out, h) : ~IsHeader(out[i])
            /\ Len(members) = Len(configuration_actions)
            /\ \A i \in DOMAIN members :
                    set_is_in_repeated_block(members[i], FALSE) = configuration_actions[i]
      ]_vars

\* a compressed list: handle_repeated_actions has inserted headers, two of
\* them next to one group
C1_Witness ==
    /\ AfterRepeated
    /\ \E h \in Positions(configuration_actions, IsHeader) :
            /\ h + configuration_actions[h].num_actions < Len(configuration_actions)
            /\ IsHeader(configuration_actions[h + configuration_actions[h].num_actions + 1])

\* the three rewrites applied once more to the list they produced
RewrittenAgain ==
    rewrite_actions(configuration_actions, operation, MaxCfgChannels, support_pre_fetch,
        ddr_channel_pairs, is_preliminary_context, preliminary_run_asap, is_first_operation)

\* the first run of the rewrites inserted no action
NothingInserted == Len(configuration_actions) = Len(operation)

\* C2 as stated: idempotence.  Running the three rewrites a second time on a
\* list they have processed succeeds and leaves the list unchanged.
C2_Idempotent ==
    AfterRepeated =>
        /\ RewrittenAgain.status = "HAILO_SUCCESS"
        /\ RewrittenAgain.value = configuration_actions

\* C2 amended: a second run of the three rewrites is a no-op exactly when the
\* first run inserted nothing; after a first run that inserted a fetch action,
\* a position marker or a repeated-group header the second run fails or
\* changes the list again.
C2_NoOpOnlyIfNothingInserted ==
    AfterRepeated =>
        ((RewrittenAgain.status = "HAILO_SUCCESS" /\ RewrittenAgain.value = configuration_actions)
            <=> NothingInserted)

\* a processed list with inserted actions that a second run makes longer
C2_Witness ==
    /\ AfterRepeated
    /\ ~NothingInserted
    /\ RewrittenAgain.status = "HAILO_SUCCESS"
    /\ Len(RewrittenAgain.value) > Len(configuration_actions)

IsMarker(action) == action.type = "EdgeLayerActivationActionsPositionMarker"
IsDdrInfo(action) == action.type \in {"DdrPairInfo", "StartDdrBufferingTask"}

\* handle_edge_layer_activation_actions has rewritten the list of an
\* operation it applies to
EdgeLayerStep == pc = "handle_edge_layer_activation_actions"
AfterEdgeLayer == pc = "handle_repeated_actions" /\ EligibleOperation

\* the ddr channel pairs of the context that need manual credit management
ManualPairs == { k \in DOMAIN ddr_channel_pairs : ddr_channel_pairs[k] }

\* C3 as stated: single activation run.  For an eligible operation the output
\* of pass B holds exactly one position marker, and the marker directly
\* precedes the first action of the one maximal run of new-input-data actions.
C3_MarkerDirectlyBeforeRun ==
    AfterEdgeLayer =>
        /\ Cardinality(Positions(configuration_actions, IsMarker)) = 1
        /\ Cardinality(RunStarts(configuration_actions, IsNewInputData)) = 1
        /\ \A m \in Positions(configuration_actions, IsMarker) :
                (m + 1) \in RunStarts(configuration_actions, IsNewInputData)

\* C3 amended: for an eligible operation the output of pass B holds exactly
\* one position marker and one maximal run of new-input-data actions; the
\* marker precedes the first action of the run, separated from it only by the
\* actions pass B inserts for the ddr pairs of the context that need manual
\* credit management (one DdrPairInfo each, then one StartDdrBufferingTask),
\* and directly precedes it when there is no such pair.
C3_MarkerBeforeRun ==
    AfterEdgeLayer =>
        /\ Cardinality(Positions(configuration_actions, IsMarker)) = 1
        /\ Cardinality(RunStarts(configuration_actions, IsNewInputData)) = 1
        /\ \A m \in Positions(configuration_actions, IsMarker) :
           \A r \in RunStarts(configuration_actions, IsNewInputData) :
                /\ m < r
                /\ \A i \in (m + 1)..(r - 1) : IsDdrInfo(configuration_actions[i])
                /\ r - m - 1 = Cardinality(ManualPairs) + (IF ManualPairs = {} THEN 0 ELSE 1)

\* pass B has placed the marker in an operation of a context with a ddr pair
\* that needs manual credit management and with a run of two actions or more
C3_Witness ==
    /\ AfterEdgeLayer
    /\ ManualPairs # {}
    /\ \E m \in Positions(configuration_actions, IsMarker) :
            /\ m + 4 <= Len(configuration_actions)
            /\ IsNewInputData(configuration_actions[m + 3])
            /\ IsNewInputData(configuration_actions[m + 4])

\* C4: in an eligible operation pass B fails with HAILO_INTERNAL_FAILURE when
\* the list holds no maximal run of new-input-data actions or two or more of
\* them, and proceeds (to pass C, with no failure) only when it holds exactly
\* one.
C4_OneRunOrInternalFailure ==
    [][EdgeLayerStep /\ EligibleOperation =>
        IF Cardinality(RunStarts(configuration_actions, IsNewInputData)) = 1
        THEN pc' = "handle_repeated_actions" /\ status' = status
        ELSE pc' = "failed" /\ status' = "HAILO_INTERNAL_FAILURE"
      ]_vars

\* pass B has failed on an eligible operation with two disjoint runs
C4_Witness ==
    /\ pc = "failed"
    /\ status = "HAILO_INTERNAL_FAILURE"
    /\ EligibleOperation
    /\ Cardinality(RunStarts(configuration_actions, IsNewInputData)) >= 2

\* the input layers whose stream index is the target of an output layer
MatchingInputs(ddr_output_layer) ==
    { k \in DOMAIN context_ddr_input_layers :
        context_ddr_input_layers[k].stream_index = ddr_output_layer.dst_stream_index }

\* the output layers whose target is the stream index of an input layer
TargetingOutputs(ddr_input_layer) ==
    { j \in DOMAIN context_ddr_output_layers :
        context_ddr_output_layers[j].dst_stream_index = ddr_input_layer.stream_index }

SameGeometry(a, b) ==
    /\ a.core_bytes_per_buffer = b.core_bytes_per_buffer
    /\ a.total_buffers_per_frame = b.total_buffers_per_frame

DdrChecked == ddr_pairs_status # "HAILO_UNINITIALIZED"

\* C5: ddr pairing check.  If the target stream index of some ddr output layer
\* of the context matches no ddr input layer, matches more than one, or
\* matches one with another bytes-per-buffer or total-buffers-per-frame, the
\* check fails with HAILO_INVALID_HEF.
C5_MismatchIsInvalidHef ==
    (/\ DdrChecked
     /\ \E j \in DOMAIN context_ddr_output_layers :
            LET o == context_ddr_output_layers[j]
            IN  \/ Cardinality(MatchingInputs(o)) # 1
                \/ \E k \in MatchingInputs(o) : ~SameGeometry(o, context_ddr_input_layers[k]))
        => ddr_pairs_status = "HAILO_INVALID_HEF"

\* the check has refused a context with as many input as output layers, for
\* an output layer whose only matching input layer has another
\* total-buffers-per-frame
C5_Witness ==
    /\ ddr_pairs_status = "HAILO_INVALID_HEF"
    /\ Len(context_ddr_input_layers) = Len(context_ddr_output_layers)
    /\ \E j \in DOMAIN context_ddr_output_layers :
            LET o == context_ddr_output_layers[j]
            IN  /\ Cardinality(MatchingInputs(o)) = 1
                /\ \E k \in MatchingInputs(o) :
                        o.total_buffers_per_frame # context_ddr_input_layers[k].total_buffers_per_frame

\* C6: whenever the ddr pairing check accepts a context, its ddr output and
\* input layers are paired one to one by stream index: every output layer
\* targets exactly one input layer and every input layer is the target of
\* exactly one output layer.
C6_PairedOneToOne ==
    ddr_pairs_status = "HAILO_SUCCESS" =>
        /\ \A j \in DOMAIN context_ddr_output_layers :
                Cardinality(MatchingInputs(context_ddr_output_layers[j])) = 1
        /\ \A k \in DOMAIN context_ddr_input_layers :
                Cardinality(TargetingOutputs(context_ddr_input_layers[k])) = 1

\* the first positions of the maximal runs of one Type that pass C may merge
CompressibleRuns(list) ==
    { s \in TypeRunStarts(list) : supports_repeated_block(list[s]) }

RunLength(list, s) == TypeRunEnd(list, s) - s + 1

\* in list, the n-th action that is no header directly follows a header with
\* the given count
HeaderBefore(list, n, count) ==
    LET q == NthMember(list, n)
    IN  /\ q > 1
        /\ IsHeader(list[q - 1])
        /\ list[q - 1].num_actions = count

\* the headers of list between its s-th and its e-th action that is no header
HeadersWithin(list, s, e) ==
    { h \in Positions(list, IsHeader) : NthMember(list, s) - 1 <= h /\ h < NthMember(list, e) }

\* C7: every repeated group in the output of pass C has at least 2 members,
\* consecutive after its header, that all have one Type and all support a
\* repeated block; no action that does not support a repeated block is
\* flagged as a member of a group.
C7_GroupsOfOneSupportedType ==
    AfterRepeated =>
        /\ \A h \in Positions(configuration_actions, IsHeader) :
                /\ configuration_actions[h].num_actions >= MIN_REQUIRED_FOR_MERGING
                /\ h + configuration_actions[h].num_actions <= Len(configuration_actions)
                /\ \A i \in GroupOf(configuration_actions, h) :
                        /\ configuration_actions[i].type = configuration_actions[h + 1].type
                        /\ supports_repeated_block(configuration_actions[i])
                        /\ configuration_actions[i].is_in_repeated_block
        /\ \A i \in DOMAIN configuration_actions :
                configuration_actions[i].is_in_repeated_block
                    => supports_repeated_block(configuration_actions[i])

\* a compressed list where a group is directly followed by an action of
\* another Type, one that does not support a repeated block and is in no group
C7_Witness ==
    /\ AfterRepeated
    /\ \E h \in Positions(configuration_actions, IsHeader) :
            LET after == h + configuration_actions[h].num_actions + 1
            IN  /\ after <= Len(configuration_actions)
                /\ ~IsHeader(configuration_actions[after])
                /\ configuration_actions[after].type # configuration_actions[h + 1].type
                /\ ~supports_repeated_block(configuration_actions[after])
                /\ ~configuration_actions[after].is_in_repeated_block

\* the number of chunks of UINT8_MAX actions, the last one maybe shorter, that
\* cover a run of n actions, and the size of the k-th of them (from 0)
GreedyChunks(n) == 0..((n - 1) \div UINT8_MAX)
GreedyChunkSize(n, k) == Min(UINT8_MAX, n - k * UINT8_MAX)

HeaderCountsFit ==
    \A h \in Positions(configuration_actions', IsHeader) :
        /\ configuration_actions'[h].num_actions >= MIN_REQUIRED_FOR_MERGING
        /\ configuration_actions'[h].num_actions <= UINT8_MAX

\* C8 as stated: every header of pass C has a count from 2 to 255, and a
\* compressible run longer than 255 is split from its start into groups of
\* 255 with the remainder as the last group (300 gives 255 and 45).
C8_SplitWithRemainderGroup ==
    [][RepeatedStep =>
        /\ HeaderCountsFit
        /\ \A s \in CompressibleRuns(configuration_actions) :
            LET n == RunLength(configuration_actions, s)
            IN  n > UINT8_MAX =>
                    /\ \A k \in GreedyChunks(n) :
                            HeaderBefore(configuration_actions', s + k * UINT8_MAX,
                                GreedyChunkSize(n, k))
                    /\ Cardinality(HeadersWithin(configuration_actions', s, s + n - 1))
                            = Cardinality(GreedyChunks(n))
      ]_vars

\* C8 amended: every header of pass C has a count from 2 to 255, and a
\* compressible run longer than 255 is split from its start into groups of
\* 255; the remainder is the last group when it has 2 actions or more (300
\* gives 255 and 45), and a remainder of one action (a run of 256, 511, ...)
\* is left outside every group, with no header and not flagged.
C8_SplitWithRemainderOfTwo ==
    [][RepeatedStep =>
        /\ HeaderCountsFit
        /\ \A s \in CompressibleRuns(configuration_actions) :
            LET n == RunLength(configuration_actions, s)
                grouped == { k \in GreedyChunks(n) :
                                GreedyChunkSize(n, k) >= MIN_REQUIRED_FOR_MERGING }
            IN  n > UINT8_MAX =>
                    /\ \A k \in grouped :
                            HeaderBefore(configuration_actions', s + k * UINT8_MAX,
                                GreedyChunkSize(n, k))
                    /\ \A k \in GreedyChunks(n) \ grouped :
                            LET q == NthMember(configuration_actions', s + k * UINT8_MAX)
                            IN  /\ ~IsHeader(configuration_actions'[q - 1])
                                /\ ~configuration_actions'[q].is_in_repeated_block
                    /\ Cardinality(HeadersWithin(configuration_actions', s, s + n - 1))
                            = Cardinality(grouped)
      ]_vars

\* a compressed list with a group of 255 directly followed by one more action
\* of the same Type that is in no group: the remainder of a run of 256
C8_Witness ==
    /\ AfterRepeated
    /\ \E h \in Positions(configuration_actions, IsHeader) :
            LET after == h + UINT8_MAX + 1
            IN  /\ configuration_actions[h].num_actions = UINT8_MAX
                /\ after <= Len(configuration_actions)
                /\ configuration_actions[after].type = configuration_actions[h + 1].type
                /\ ~configuration_actions[after].is_in_repeated_block
                /\ (after = Len(configuration_actions)
                        \/ configuration_actions[after + 1].type # configuration_actions[after].type)

\* C9: for a maximal run of n compressible actions, 2 <= n <= 255, pass C
\* outputs one header with the action-list type of the members and the count n
\* directly before the first action of the run, followed by the n actions in
\* their order, each flagged as inside a repeated block.
C9_OneHeaderPerShortRun ==
    [][RepeatedStep =>
        \A s \in CompressibleRuns(configuration_actions) :
            LET n == RunLength(configuration_actions, s)
                q == NthMember(configuration_actions', s)
            IN  (MIN_REQUIRED_FOR_MERGING <= n /\ n <= UINT8_MAX) =>
                    /\ HeaderBefore(configuration_actions', s, n)
                    /\ configuration_actions'[q - 1].sub_action_type
                            = configuration_actions[s].action_list_type
                    /\ q + n - 1 <= Len(configuration_actions')
                    /\ \A j \in 0..(n - 1) :
                            configuration_actions'[q + j]
                                = set_is_in_repeated_block(configuration_actions[s + j], TRUE)
      ]_vars

\* a compressed list with a group of 254 flagged actions of one Type between
\* actions of another Type
C9_Witness ==
    /\ AfterRepeated
    /\ \E h \in Positions(configuration_actions, IsHeader) :
            LET n == configuration_actions[h].num_actions
            IN  /\ n = UINT8_MAX - 1
                /\ h > 1
                /\ h + n < Len(configuration_actions)
                /\ configuration_actions[h].sub_action_type
                        = configuration_actions[h + 1].action_list_type
                /\ configuration_actions[h - 1].type # configuration_actions[h + 1].type
                /\ IsHeader(configuration_actions[h + n + 1])
                /\ \A i \in GroupOf(configuration_actions, h) :
                        configuration_actions[i].is_in_repeated_block

\* add_fetch_config_actions has just rewritten the list
FetchStep ==
    pc = "add_fetch_config_actions" /\ pc' = "handle_edge_layer_activation_actions"
AfterFetch == pc = "handle_edge_layer_activation_actions"

\* the last position of the maximal run of WriteDataCcw actions that starts at s
WriteCcwRunEnd(list, s) == TypeRunEnd(list, s)

\* the config stream indexes the actions s..e of list write to
WrittenIndexes(list, s, e) ==
    { operation[list[k].proto].cfg_channel_index : k \in s..e }

\* the j-th smallest element of a set of numbers
NthSmallest(S, j) == CHOOSE x \in S : Cardinality({y \in S : y < x}) = j - 1

FetchType == IF support_pre_fetch THEN "AddCcwBurst" ELSE "CreateDescForCcw"

\* C10: pass A changes the list only by inserting fetch actions: directly
\* after the last write of each maximal run of WriteDataCcw actions, one fetch
\* action for each config stream index written in the run, in ascending order
\* of the index, and no fetch action anywhere else or for another index.
C10_FetchAfterEachWriteRun ==
    [][FetchStep =>
        LET given == configuration_actions
            out == configuration_actions'
        IN  /\ SelectSeq(out, LAMBDA a : ~IsFetch(a)) = given
            /\ \A s \in RunStarts(given, IsWriteCcw) :
                LET e == WriteCcwRunEnd(given, s)
                    q == NthOther(out, IsFetch, e)
                    written == WrittenIndexes(given, s, e)
                    count == Cardinality(written)
                IN  /\ q - NthOther(out, IsFetch, s) = e - s
                    /\ q + count <= Len(out)
                    /\ \A j \in 1..count :
                            /\ out[q + j].type = FetchType
                            /\ out[q + j].config_stream_index = NthSmallest(written, j)
                    /\ (q + count = Len(out) \/ ~IsFetch(out[q + count + 1]))
            /\ \A f \in Positions(out, IsFetch) :
                    /\ f > 1
                    /\ IsFetch(out[f - 1])
                        \/ \E s \in RunStarts(given, IsWriteCcw) :
                                f - 1 = NthOther(out, IsFetch, WriteCcwRunEnd(given, s))
      ]_vars

\* pass A has processed a run that writes to index 1 and then to index 0: the
\* fetch for index 0 and then the fetch for index 1 follow its last write
C10_Witness ==
    /\ AfterFetch
    /\ \E i \in DOMAIN configuration_actions :
            /\ i + 3 <= Len(configuration_actions)
            /\ IsWriteCcw(configuration_actions[i])
            /\ IsWriteCcw(configuration_actions[i + 1])
            /\ operation[configuration_actions[i].proto].cfg_channel_index = 1
            /\ operation[configuration_actions[i + 1].proto].cfg_channel_index = 0
            /\ IsFetch(configuration_actions[i + 2])
            /\ configuration_actions[i + 2].config_stream_index = 0
            /\ IsFetch(configuration_actions[i + 3])
            /\ configuration_actions[i + 3].config_stream_index = 1

(***************************************************************************)
(* The bytes of the config buffers: WriteDataCcwAction::is_last_ccw_write  *)
(***************************************************************************)
CCW_BYTES_IN_WORD == 4
CCW_DATA_OFFSET == CCW_BYTES_IN_WORD * 2
CCW_HEADER_SIZE == CCW_DATA_OFFSET

\* a kWriteDataCcw action with data of a given length
ProtoWriteDataCcwData(cfg_channel_index, data_length) ==
    ProtoWriteDataCcw(cfg_channel_index) @@ [data_length |-> data_length]

\* the bytes the first `last` actions of a context write to a config channel
RECURSIVE written_bytes(_, _, _)
written_bytes(proto_actions, cfg_channel_index, last) ==
    IF last = 0 THEN 0
    ELSE written_bytes(proto_actions, cfg_channel_index, last - 1)
            + (IF /\ proto_actions[last].action_case = "kWriteDataCcw"
                  /\ proto_actions[last].cfg_channel_index = cfg_channel_index
               THEN proto_actions[last].data_length ELSE 0)

\* ConfigBuffer::get_total_cfg_size: the sum of the lengths that
\* get_config_buffer_info collects for the channel over the context
get_total_cfg_size(proto_actions, cfg_channel_index) ==
    written_bytes(proto_actions, cfg_channel_index, Len(proto_actions))

\* ConfigBuffer::get_current_buffer_size when the action made of the proto
\* action number proto executes: the earlier writes of the context have
\* written their data
get_current_buffer_size(proto_actions, cfg_channel_index, proto) ==
    written_bytes(proto_actions, cfg_channel_index, proto - 1)

is_last_ccw_write(proto_actions, action) ==
    LET proto_action == proto_actions[action.proto]
        write_size == proto_action.data_length
    IN  IF (write_size + get_current_buffer_size(proto_actions,
                            proto_action.cfg_channel_index, action.proto))
                # get_total_cfg_size(proto_actions, proto_action.cfg_channel_index)
        THEN FALSE
        ELSE TRUE

\* the operations of WriteDataCcw actions with no data or one word of data,
\* and DisableLcu actions; the operation is the whole context
CcwDataLengths == {0, CCW_HEADER_SIZE}
CcwProtoActions ==
    { ProtoWriteDataCcwData(i, n) : i \in 0..(MaxCfgChannels - 1), n \in CcwDataLengths }
    \cup { ProtoDisableLcu }
CcwOperations == SeqsUpTo(CcwProtoActions, MaxActions)

InitCcw ==
    /\ operation \in CcwOperations
    /\ support_pre_fetch \in BOOLEAN
    /\ is_preliminary_context = FALSE
    /\ is_first_operation = FALSE
    /\ preliminary_run_asap = FALSE
    /\ ddr_channel_pairs = <<>>
    /\ NotStarted
    /\ NoDdrCheck
    /\ NotCompiling
    /\ NotRunning
    /\ NotRepeating
    /\ NoLayers
    /\ NotPacking
    /\ NoNetworkGroup

NextCcw ==
    \/ CreateActions
    \/ AddFetchConfigActions

SpecCcw == InitCcw /\ [][NextCcw]_vars

\* in out, a fetch action directly follows the k-th action that is no fetch
FetchFollows(out, k) ==
    LET q == NthOther(out, IsFetch, k)
    IN  q < Len(out) /\ IsFetch(out[q + 1])

\* C11 as stated: pass A treats a WriteDataCcw action as the last write of
\* its run, and emits the fetch actions after it, exactly when the bytes
\* accumulated for its config channel reach the total of the channel.
C11_FetchWhenBytesReachTotal ==
    [][FetchStep =>
        \A k \in Positions(configuration_actions, IsWriteCcw) :
            FetchFollows(configuration_actions', k)
                <=> is_last_ccw_write(operation, configuration_actions[k])
      ]_vars

\* C11 amended: pass A treats a WriteDataCcw action as the last write of its
\* run, and emits the fetch actions after it and after no other write,
\* exactly when the next action of the list is no WriteDataCcw action (or
\* there is none), whatever bytes have been accumulated for its channel.
C11_FetchWhenRunEnds ==
    [][FetchStep =>
        \A k \in Positions(configuration_actions, IsWriteCcw) :
            FetchFollows(configuration_actions', k)
                <=> (k = Len(configuration_actions)
                        \/ ~IsWriteCcw(configuration_actions[k + 1]))
      ]_vars

\* pass A has emitted a fetch action after a write that leaves the bytes of
\* its channel short of the total: a later run writes to the channel again
C11_Witness ==
    /\ AfterFetch
    /\ \E i \in DOMAIN configuration_actions :
            /\ i < Len(configuration_actions)
            /\ IsWriteCcw(configuration_actions[i])
            /\ IsFetch(configuration_actions[i + 1])
            /\ "data_length" \in DOMAIN operation[configuration_actions[i].proto]
            /\ ~is_last_ccw_write(operation, configuration_actions[i])

\* the number of the actions s..e of list that write to a config stream index
WritesTo(list, s, e, config_stream_index) ==
    Cardinality({ k \in s..e :
        operation[list[k].proto].cfg_channel_index = config_stream_index })

\* C12: the burst count of each AddCcwBurst action is the number of writes to
\* its config stream index within the run of WriteDataCcw actions that just
\* ended; nothing is carried over from earlier runs.
C12_BurstsOfTheRun ==
    [][FetchStep /\ support_pre_fetch =>
        \A s \in RunStarts(configuration_actions, IsWriteCcw) :
            LET e == WriteCcwRunEnd(configuration_actions, s)
                q == NthOther(configuration_actions', IsFetch, e)
                count == Cardinality(WrittenIndexes(configuration_actions, s, e))
            IN  \A j \in 1..count :
                    LET fetch == configuration_actions'[q + j]
                    IN  /\ fetch.type = "AddCcwBurst"
                        /\ fetch.ccw_bursts
                            = WritesTo(configuration_actions, s, e, fetch.config_stream_index)
      ]_vars

\* pass A has emitted two AddCcwBurst actions for one index, after two runs
\* with one write to the index each: the second carries 1, not 2
C12_Witness ==
    /\ AfterFetch
    /\ support_pre_fetch
    /\ \E f \in DOMAIN configuration_actions, g \in DOMAIN configuration_actions :
            /\ f < g
            /\ configuration_actions[f].type = "AddCcwBurst"
            /\ configuration_actions[g].type = "AddCcwBurst"
            /\ configuration_actions[f].config_stream_index
                    = configuration_actions[g].config_stream_index
            /\ configuration_actions[f].ccw_bursts = 1
            /\ configuration_actions[g].ccw_bursts = 1

\* the steps of parse_actions_in_operation in the order of the code
OperationSteps ==
    << "create", "add_fetch_config_actions", "handle_edge_layer_activation_actions",
       "handle_repeated_actions", "execute" >>

\* the list of the actions ContextSwitchConfigAction::create makes of the
\* operation
CreatedActions ==
    [i \in DOMAIN operation |->
        ContextSwitchConfigAction_create(operation[i], i, MaxCfgChannels).value]

IsInserted(action) == IsFetch(action) \/ IsMarker(action) \/ IsDdrInfo(action)
    \/ action.type = "StartBurstCreditsTask"

\* C19: for every operation the three rewrites run once each, A then B then C,
\* and the list is executed only after C: every step of the operation goes to
\* the next step of the order or fails, pass C is given the list of the
\* operation with every action A and B inserted, and the list executed is the
\* result of C on the result of B on the result of A.
C19_PassesOnceInOrder ==
    [][/\ pc' # pc =>
            \/ pc' = "failed"
            \/ \E k \in 1..(Len(OperationSteps) - 1) :
                    pc = OperationSteps[k] /\ pc' = OperationSteps[k + 1]
       /\ RepeatedStep =>
            LET a == add_fetch_config_actions(CreatedActions, operation, MaxCfgChannels,
                        support_pre_fetch)
                b == handle_edge_layer_activation_actions(a.value, ddr_channel_pairs,
                        is_preliminary_context, preliminary_run_asap, is_first_operation)
                c == handle_repeated_actions(b.value)
            IN  /\ a.status = "HAILO_SUCCESS"
                /\ b.status = "HAILO_SUCCESS"
                /\ c.status = "HAILO_SUCCESS"
                /\ configuration_actions = b.value
                /\ SelectSeq(configuration_actions, LAMBDA x : ~IsInserted(x)) = CreatedActions
                /\ configuration_actions' = c.value
      ]_vars

\* a list ready to execute where pass C has put a header before two
\* DdrPairInfo actions that pass B inserted after the marker, in an operation
\* where pass A inserted a fetch action
C19_Witness ==
    /\ AfterRepeated
    /\ \E f \in DOMAIN configuration_actions : IsFetch(configuration_actions[f])
    /\ \E m \in Positions(configuration_actions, IsMarker) :
            /\ m + 3 <= Len(configuration_actions)
            /\ IsHeader(configuration_actions[m + 1])
            /\ configuration_actions[m + 1].num_actions = 2
            /\ configuration_actions[m + 2].type = "DdrPairInfo"
            /\ configuration_actions[m + 2].is_in_repeated_block
            /\ configuration_actions[m + 3].type = "DdrPairInfo"

\* the operations pass B does not apply to: those of the preliminary context
\* without preliminary_run_asap, and those of a dynamic context after its first
IneligibleOperation ==
    \/ is_preliminary_context /\ ~preliminary_run_asap
    \/ ~is_preliminary_context /\ ~is_first_operation

\* C20: pass B leaves the list of an ineligible operation unchanged and does
\* not check its runs of new-input-data actions: it succeeds whatever their
\* number.
C20_IneligibleUnchanged ==
    [][EdgeLayerStep /\ IneligibleOperation =>
        /\ configuration_actions' = configuration_actions
        /\ pc' = "handle_repeated_actions"
        /\ status' = status
      ]_vars

\* pass B has passed an operation of a dynamic context that is not the first,
\* with two runs of new-input-data actions, and has inserted nothing
C20_Witness ==
    /\ pc = "handle_repeated_actions"
    /\ ~is_preliminary_context
    /\ ~is_first_operation
    /\ Cardinality(RunStarts(configuration_actions, IsNewInputData)) = 2
    /\ Positions(configuration_actions, IsMarker) = {}

\* the place of a layer in the order of the spec: ddr outputs, boundary
\* outputs, inter-context outputs, ddr inputs, boundary inputs,
\* inter-context inputs
WiringRank(layer_info) ==
    (IF layer_info.direction = D2H THEN 0 ELSE 3)
        + (CASE layer_info.type = "DDR" -> 1
             [] layer_info.type = "BOUNDARY" -> 2
             [] layer_info.type = "INTER_CONTEXT" -> 3)

\* the output layers of the context that is wired
OutputLayers ==
    { EdgeLayer(layer[1], D2H, MetadataIndex) :
        layer \in { l \in ContextMetadata.edge_layers : l[2] = D2H } }

\* C13: while a context is wired its layers are wired in the order ddr
\* outputs, boundary outputs, inter-context outputs, ddr inputs, boundary
\* inputs, inter-context inputs, and an input layer is wired only after every
\* output layer of the context has been wired.
C13_WiringOrder ==
    compile_pc = "fill_edge_layers" =>
        /\ \A i \in DOMAIN wired : \A j \in DOMAIN wired :
                i < j => WiringRank(wired[i]) < WiringRank(wired[j])
        /\ \A i \in DOMAIN wired :
                wired[i].direction = H2D =>
                    OutputLayers \subseteq { wired[j] : j \in 1..(i - 1) }

\* a context with a layer of each of the six kinds has been wired
C13_Witness ==
    /\ compile_pc = "fill_edge_layers"
    /\ { WiringRank(wired[i]) : i \in DOMAIN wired } = 1..6

\* the wiring of the context has completed successfully, or the context had
\* none, and the compile has not failed since
AfterWiring ==
    compile_pc \in {"parse_operations", "fill_context",
                    "create_fw_managed_vdma_channels", "done"}

\* the number of calls of free_channel_index with the identifier in this wiring
TimesFreed(layer_identifier) ==
    Cardinality({ i \in DOMAIN freed : freed[i] = layer_identifier })

\* C14: when the wiring of a context has completed successfully, every
\* inter-context and ddr identifier that was given a channel during that
\* wiring has been freed exactly once, and no such identifier holds a channel
\* afterwards, in particular when the next context starts.
C14_TransientLeasesReleased ==
    AfterWiring =>
        /\ \A layer_identifier \in acquired :
                layer_identifier.type \in {"INTER_CONTEXT", "DDR"} =>
                    TimesFreed(layer_identifier) = 1
        /\ \A layer_identifier \in DOMAIN allocated_channels :
                layer_identifier.type = "BOUNDARY"

\* the wiring of the second dynamic context has completed after it gave
\* channels to both ddr identifiers, to an inter-context input and to an
\* inter-context output, and freed the four
C14_Witness ==
    /\ compile_pc = "parse_operations"
    /\ context_index = 1
    /\ Cardinality({ layer_identifier \in acquired :
                        layer_identifier.type \in {"INTER_CONTEXT", "DDR"} }) = 4
    /\ Len(freed) = 4

\* the boundary identifiers that hold a channel
BoundaryLeases(channels) ==
    { layer_identifier \in DOMAIN channels : layer_identifier.type = "BOUNDARY" }

\* C15: no step of a compile frees a boundary identifier: free_channel_index
\* is never called with one, and a boundary identifier that holds a channel
\* keeps that channel.
C15_BoundaryNeverReleased ==
    [][/\ \A i \in DOMAIN freed' : freed'[i].type # "BOUNDARY"
       /\ \A layer_identifier \in BoundaryLeases(allocated_channels) :
            /\ layer_identifier \in DOMAIN allocated_channels'
            /\ allocated_channels'[layer_identifier] = allocated_channels[layer_identifier]
      ]_vars

\* a compile has succeeded: the second context has freed channels, and the
\* boundary identifiers of both contexts still hold theirs
C15_Witness ==
    /\ compile_pc = "done"
    /\ freed # <<>>
    /\ { layer_identifier.name : layer_identifier \in BoundaryLeases(allocated_channels) } = {0, 1}

\* C16: the preliminary context is compiled first and then the dynamic
\* contexts by ascending index, each exactly once: the context compiled next
\* is always the one after the last compiled, the context index never goes
\* back, and the compile goes on to the channels only when all are compiled.
C16_ContextsInOrder ==
    [][/\ compiled' \in { compiled, Append(compiled, PreliminaryContext + Len(compiled)) }
       /\ context_index' \in { context_index, context_index + 1 }
       /\ compile_pc' \in {"fill_edge_layers", "parse_operations"} =>
            context_index' = PreliminaryContext + Len(compiled')
       /\ compile_pc' \in {"create_fw_managed_vdma_channels", "done"} =>
            Len(compiled') = 1 + Len(network_group.contexts)
      ]_vars

\* a network group of two dynamic contexts has been compiled
C16_Witness ==
    /\ compile_pc = "done"
    /\ compiled = << PreliminaryContext, 0, 1 >>

\* the status of the function the next step of the compile calls: a fill
\* function, free_channel_index or parse_actions_in_operation
CalledStatus ==
    CASE compile_pc = "fill_edge_layers" /\ pending_layers # <<>> ->
            fill_edge_layer(
                Resources(allocated_channels, ddr_channels_pairs, inter_context_buffers),
                Head(pending_layers), network_group.padded_ddr_buffers).status
      [] compile_pc = "fill_edge_layers" /\ pending_layers = <<>> /\ pending_frees # <<>> ->
            free_channel_index(allocated_channels, Head(pending_frees)).status
      [] compile_pc = "parse_operations" /\ operation_index <= Len(ContextOperations) ->
            parse_actions_in_operation(ContextOperations[operation_index],
                IsPreliminary, operation_index = 1,
                get_ddr_channel_pairs_per_context(ddr_channels_pairs, MetadataIndex),
                preliminary_run_asap, support_pre_fetch)
      [] OTHER -> "HAILO_SUCCESS"

\* C17: when the function a step calls fails, the compile ends at that step
\* with that status: no further operation or context is compiled and nothing
\* is done again. A compile that has failed takes no further step, and its
\* status is an error, never that of a returned program.
C17_FailFast ==
    [][/\ compile_pc # "failed"
       /\ CalledStatus # "HAILO_SUCCESS" =>
            /\ compile_pc' = "failed"
            /\ compile_status' = CalledStatus
            /\ UNCHANGED <<context_index, operation_index, compiled, wired, freed,
                           fw_managed_channels>>
       /\ compile_pc' = "failed" =>
            compile_status' \notin {"HAILO_SUCCESS", "HAILO_UNINITIALIZED"}
      ]_vars

\* the construction of an action of the second operation of the second
\* dynamic context has failed, and the compile with it
C17_Witness ==
    /\ compile_pc = "failed"
    /\ compile_status = "HAILO_INVALID_HEF"
    /\ context_index = 1
    /\ operation_index = 2
    /\ compiled = << PreliminaryContext, 0 >>

\* the dynamic contexts whose compilation has succeeded
CompiledContexts == { compiled[i] : i \in DOMAIN compiled } \ { PreliminaryContext }

\* C18: the firmware-managed channels exist only when every dynamic context
\* has been compiled successfully, and the compile returns HAILO_SUCCESS, and
\* with it the program, only when the channels exist.
C18_ChannelsAfterContexts ==
    /\ fw_managed_channels =>
            CompiledContexts = 0..(Len(network_group.contexts) - 1)
    /\ compile_pc = "create_fw_managed_vdma_channels" =>
            CompiledContexts = 0..(Len(network_group.contexts) - 1)
    /\ compile_status = "HAILO_SUCCESS" => fw_managed_channels

\* the channels of a network group of two dynamic contexts have been created
\* and the program is returned
C18_Witness ==
    /\ compile_status = "HAILO_SUCCESS"
    /\ fw_managed_channels
    /\ Len(network_group.contexts) = 2

IsStartBurstCreditsTask(action) == action.type = "StartBurstCreditsTask"

\* C21: for an eligible operation the output of pass B holds exactly one
\* StartBurstCreditsTask action, and it directly follows the last action of
\* the run of new-input-data actions.
C21_OneCreditsTaskAfterRun ==
    AfterEdgeLayer =>
        /\ Cardinality(Positions(configuration_actions, IsStartBurstCreditsTask)) = 1
        /\ \A t \in Positions(configuration_actions, IsStartBurstCreditsTask) :
                /\ t > 1
                /\ IsNewInputData(configuration_actions[t - 1])
                /\ \A i \in Positions(configuration_actions, IsNewInputData) : i < t

\* pass B has added the StartBurstCreditsTask action after a run of two
\* new-input-data actions, and another action follows it
C21_Witness ==
    /\ AfterEdgeLayer
    /\ \E t \in Positions(configuration_actions, IsStartBurstCreditsTask) :
            /\ t > 2
            /\ t < Len(configuration_actions)
            /\ IsNewInputData(configuration_actions[t - 1])
            /\ IsNewInputData(configuration_actions[t - 2])

IsDdrPairInfo(action) == action.type = "DdrPairInfo"

\* C22: for an eligible operation the DdrPairInfo actions in the output of
\* pass B all lie after the position marker and before the first
\* new-input-data action, and there is exactly one for each ddr pair of the
\* context that needs manual credit management and none for any other pair.
C22_OnePairInfoPerManualPair ==
    AfterEdgeLayer =>
        /\ \A d \in Positions(configuration_actions, IsDdrPairInfo) :
                /\ \E m \in Positions(configuration_actions, IsMarker) : m < d
                /\ \A i \in Positions(configuration_actions, IsNewInputData) : d < i
        /\ \A k \in DOMAIN ddr_channel_pairs :
                Cardinality({ d \in Positions(configuration_actions, IsDdrPairInfo) :
                                configuration_actions[d].ddr_pair = k })
                    = (IF ddr_channel_pairs[k] THEN 1 ELSE 0)
        /\ \A d \in Positions(configuration_actions, IsDdrPairInfo) :
                configuration_actions[d].ddr_pair \in DOMAIN ddr_channel_pairs

\* pass B has added the DdrPairInfo action of the one pair of two that needs
\* manual credit management
C22_Witness ==
    /\ AfterEdgeLayer
    /\ Len(ddr_channel_pairs) = 2
    /\ Cardinality(ManualPairs) = 1
    /\ Cardinality(Positions(configuration_actions, IsDdrPairInfo)) = 1

\* the discriminants the construction does not support: none set, the
\* compressed-data write, and for a single-context network group (configured
\* over an interface without the sequencer) the sequencer actions
UnsupportedCases(single_context) ==
    { "ACTION_NOT_SET", "kWriteCompressedData" }
        \cup (IF single_context THEN { "kWaitForSeqeuncer", "kEnableSequencer" } ELSE {})

ConstructionStep == pc \in {"create", "create_single_context_network_group_config"}

\* C23: the construction of the actions of an operation that holds an action
\* of an unknown or unsupported discriminant fails with HAILO_NOT_IMPLEMENTED
\* and with no other status.
C23_UnsupportedIsNotImplemented ==
    [][ConstructionStep
        /\ (\E i \in DOMAIN operation :
                operation[i].action_case
                    \in UnsupportedCases(pc = "create_single_context_network_group_config"))
        => pc' = "failed" /\ status' = "HAILO_NOT_IMPLEMENTED"
      ]_vars

\* the group asked for has no member, or more than 255, or its members are
\* repeated groups
RefusableGroup ==
    IF repeated_call.function = "RepeatedAction::create"
    THEN \/ Len(repeated_call.actions) = 0
         \/ Len(repeated_call.actions) > UINT8_MAX
         \/ \E i \in DOMAIN repeated_call.actions :
                repeated_call.actions[i].type = "AddRepeated"
    ELSE \/ repeated_call.num_actions = 0
         \/ repeated_call.num_actions > UINT8_MAX
         \/ repeated_call.sub_action_type = ACTION_ADD_REPEATED

\* C24: the creation of a repeated group whose members are repeated groups,
\* or that has no member, or more than 255, returns an error and no action.
C24_RepeatedGroupRefused ==
    [][repeated_result = NotCalled /\ RefusableGroup =>
        /\ repeated_result'.status # "HAILO_SUCCESS"
        /\ repeated_result'.value = NoValue
      ]_vars

\* RepeatedAction::create has refused a group of 256 actions that support a
\* repeated block
C24_Witness ==
    /\ repeated_call.function = "RepeatedAction::create"
    /\ Len(repeated_call.actions) = UINT8_MAX + 1
    /\ repeated_call.actions[1].supports_repeated_block
    /\ repeated_result.status = "HAILO_INTERNAL_FAILURE"

\* C25: a network group with more contexts than MAX_CONTEXTS_COUNT is refused
\* with HAILO_INVALID_HEF, and when it is refused no context has been
\* compiled, no edge layer wired and no channel acquired.
C25_TooManyContextsRefused ==
    Len(network_group.contexts) > MAX_CONTEXTS_COUNT =>
        \/ compile_pc = "create_resources_manager" /\ compile_status = "HAILO_UNINITIALIZED"
        \/ /\ compile_pc = "failed"
           /\ compile_status = "HAILO_INVALID_HEF"
           /\ compiled = <<>>
           /\ wired = <<>>
           /\ acquired = {}
           /\ allocated_channels = <<>>
           /\ ~fw_managed_channels

\* a network group with one context too many, whose batch size does not fit
\* either, has been refused
C25_Witness ==
    /\ Len(network_group.contexts) = MAX_CONTEXTS_COUNT + 1
    /\ ~network_group.batch_size_fits
    /\ compile_pc = "failed"
    /\ compile_status = "HAILO_INVALID_HEF"

\* C26: while the preliminary context is filled, with preliminary_run_asap
\* its operations are parsed only when every edge layer of the context 0 is
\* wired, and without it the edge layers are never filled: no channel is
\* acquired and no buffer is created.
C26_PreliminaryWiresWithRunAsap ==
    [][IsPreliminary /\ context_index' = context_index =>
        IF preliminary_run_asap
        THEN compile_pc' = "parse_operations" =>
                /\ wired' # <<>>
                /\ Len(wired') = Cardinality(network_group.contexts[1].metadata.edge_layers)
        ELSE /\ compile_pc' # "fill_edge_layers"
             /\ UNCHANGED <<resources_vars, wired, acquired, freed>>
      ]_vars

\* the operations of a preliminary context without preliminary_run_asap are
\* parsed, in a network group whose context 0 has edge layers
C26_Witness ==
    /\ IsPreliminary
    /\ ~preliminary_run_asap
    /\ compile_pc = "parse_operations"
    /\ network_group.contexts[1].metadata.edge_layers # {}
    /\ allocated_channels = <<>>
    /\ inter_context_buffers = {}

\* with preliminary_run_asap the preliminary context has acquired channels
C26_WitnessRunAsap ==
    /\ IsPreliminary
    /\ preliminary_run_asap
    /\ compile_pc = "parse_operations"
    /\ acquired # {}

\* the pairs of edge layers of the network group that share what same gives
SharingLayers(same(_, _)) ==
    LET edge_layers == AllEdgeLayers(net_group)
    IN  { pair \in (DOMAIN edge_layers) \X (DOMAIN edge_layers) :
            /\ pair[1] < pair[2]
            /\ same(edge_layers[pair[1]], edge_layers[pair[2]]) }

SameStreamIndex(first, second) ==
    /\ first.edge_connection_type = second.edge_connection_type
    /\ first.direction = second.direction
    /\ first.sys_index = second.sys_index

SameBoundaryName(first, second) ==
    /\ first.edge_connection_type = BOUNDARY
    /\ second.edge_connection_type = BOUNDARY
    /\ first.name = second.name

\* C27 as stated: in a network group whose layers get_all_layers_info
\* accepts no two edge layers of one kind (and one direction) have the same
\* stream index.
C27_UniqueStreamIndexes ==
    /\ layers_result.function = "get_all_layers_info"
    /\ layers_result.status = "HAILO_SUCCESS"
    => SharingLayers(SameStreamIndex) = {}

\* C27: in a network group that is accepted no two boundary edge layers have
\* the same name; a network group with two such layers is refused.
C27_UniqueBoundaryNames ==
    /\ layers_result.status = "HAILO_SUCCESS" => SharingLayers(SameBoundaryName) = {}
    /\ layers_result # NotParsed /\ SharingLayers(SameBoundaryName) # {} =>
            layers_result.status \in {"HAILO_INVALID_HEF", "HAILO_INTERNAL_FAILURE"}

\* get_all_layers_info has refused a network group for a boundary layer of
\* its second context that has the name of one of the first
C27_Witness ==
    /\ layers_result.function = "get_all_layers_info"
    /\ layers_result.status = "HAILO_INVALID_HEF"
    /\ Len(net_group) = 2
    /\ SharingLayers(SameBoundaryName) # {}
    /\ SharingLayers(SameStreamIndex) = {}
    /\ \A i \in DOMAIN net_group : \A j \in DOMAIN net_group[i] :
            net_group[i][j].edge_layer_type = LAYER_TYPE_INFO

\* C28: the packed channel id is one byte that holds the channel index in its
\* low ENGINE_INDEX_SHIFT bits and the engine index above them, which is
\* channel_index | (engine_index << ENGINE_INDEX_SHIFT); the engine 1 and the
\* channel 5 pack to 37.
C28_PackedChannelId ==
    packed_vdma_channel_id # NotPacked =>
        /\ packed_vdma_channel_id \in 0..UINT8_MAX
        /\ packed_vdma_channel_id % (2^ENGINE_INDEX_SHIFT) = channel_id.channel_index
        /\ packed_vdma_channel_id \div (2^ENGINE_INDEX_SHIFT) = channel_id.engine_index
        /\ channel_id.engine_index = 1 /\ channel_id.channel_index = 5 =>
                packed_vdma_channel_id = 37

\* the channel 5 of the engine 1 has been packed
C28_Witness ==
    /\ channel_id.engine_index = 1
    /\ channel_id.channel_index = 5
    /\ packed_vdma_channel_id = 37

\* the action at position q of list is a member of the group of some header
InSomeGroup(list, q) ==
    \E h \in Positions(list, IsHeader) : q \in GroupOf(list, h)

\* C29 as stated: pass C leaves every action of a maximal run of 2 or more
\* actions of one Type whose first supports a repeated block flagged and
\* inside a group, whatever the length of the run.
C29_EveryMemberGrouped ==
    [][RepeatedStep =>
        \A s \in CompressibleRuns(configuration_actions) :
            LET n == RunLength(configuration_actions, s)
            IN  n >= MIN_REQUIRED_FOR_MERGING =>
                    \A j \in 0..(n - 1) :
                        LET q == NthMember(configuration_actions', s + j)
                        IN  /\ configuration_actions'[q].is_in_repeated_block
                            /\ InSomeGroup(configuration_actions', q)
      ]_vars

\* C29 amended: pass C leaves every action of such a run flagged and inside a
\* group of 2 to 255 actions, but for the last action of a run whose length
\* is one more than a multiple of 255, which is in no group and not flagged.
C29_AllButSingleRemainderGrouped ==
    [][RepeatedStep =>
        \A s \in CompressibleRuns(configuration_actions) :
            LET n == RunLength(configuration_actions, s)
            IN  n >= MIN_REQUIRED_FOR_MERGING =>
                    \A j \in 0..(n - 1) :
                        LET q == NthMember(configuration_actions', s + j)
                        IN  IF n % UINT8_MAX = 1 /\ j = n - 1
                            THEN /\ ~configuration_actions'[q].is_in_repeated_block
                                 /\ ~InSomeGroup(configuration_actions', q)
                            ELSE /\ configuration_actions'[q].is_in_repeated_block
                                 /\ \E h \in Positions(configuration_actions', IsHeader) :
                                        /\ q \in GroupOf(configuration_actions', h)
                                        /\ configuration_actions'[h].num_actions
                                                >= MIN_REQUIRED_FOR_MERGING
                                        /\ configuration_actions'[h].num_actions <= UINT8_MAX
      ]_vars

\* a compressed list that ends with two groups of 255 and one more action of
\* their Type that is in no group: the run had 511 actions
C29_Witness ==
    /\ AfterRepeated
    /\ Len(configuration_actions) >= 2 * UINT8_MAX + 3
    /\ LET last == Len(configuration_actions)
           first == last - 2 * UINT8_MAX - 2
       IN  /\ IsHeader(configuration_actions[first])
           /\ configuration_actions[first].num_actions = UINT8_MAX
           /\ IsHeader(configuration_actions[first + UINT8_MAX + 1])
           /\ configuration_actions[first + UINT8_MAX + 1].num_actions = UINT8_MAX
           /\ configuration_actions[last].type = configuration_actions[last - 1].type
           /\ configuration_actions[last - 1].is_in_repeated_block
           /\ ~configuration_actions[last].is_in_repeated_block

\* the kinds of action each rewrite adds to the list
InsertedByFetch(action) == IsFetch(action)
InsertedByEdgeLayer(action) ==
    IsMarker(action) \/ IsDdrInfo(action) \/ IsStartBurstCreditsTask(action)
InsertedByRepeated(action) == IsHeader(action)

\* the actions of list that a rewrite has not added, in their order
Kept(list, Added(_)) == SelectSeq(list, LAMBDA a : ~Added(a))

\* C30: each of the three rewrites only adds actions.  Without the actions
\* of the kinds the rewrite adds, its output is its input: the same actions
\* in the same order, none dropped, repeated or moved, with every field as it
\* was, but for is_in_repeated_block, which handle_repeated_actions alone may
\* set.
C30_RewritesOnlyInsert ==
    [][/\ pc = "add_fetch_config_actions" =>
            Kept(configuration_actions', InsertedByFetch) = configuration_actions
       /\ pc = "handle_edge_layer_activation_actions" =>
            Kept(configuration_actions', InsertedByEdgeLayer) = configuration_actions
       /\ pc = "handle_repeated_actions" =>
            LET kept == Kept(configuration_actions', InsertedByRepeated)
            IN  /\ Len(kept) = Len(configuration_actions)
                /\ \A i \in DOMAIN kept :
                        kept[i] \in { configuration_actions[i],
                                      set_is_in_repeated_block(configuration_actions[i], TRUE) }
      ]_vars

\* a list to which each of the three rewrites has added actions: it holds a
\* fetch action, a position marker and a header, and the actions of the
\* operation, one of them flagged
C30_Witness ==
    /\ AfterRepeated
    /\ \E i \in DOMAIN configuration_actions : InsertedByFetch(configuration_actions[i])
    /\ \E i \in DOMAIN configuration_actions : InsertedByEdgeLayer(configuration_actions[i])
    /\ \E i \in DOMAIN configuration_actions : InsertedByRepeated(configuration_actions[i])
    /\ Len(Kept(Kept(configuration_actions, IsInserted), IsHeader)) = Len(operation)
    /\ \E i \in DOMAIN configuration_actions :
            /\ configuration_actions[i].is_in_repeated_block
            /\ ~IsInserted(configuration_actions[i])

(***************************************************************************)
(* C31                                                                     *)
(***************************************************************************)
\* what an earlier wiring of the layer has left in the resources manager:
\* the channel lease of a boundary layer, which is never released, the
\* inter-context buffer of an inter-context output layer, the ddr channels
\* pair of a ddr output layer
AlreadyWired(layer_info) ==
    CASE layer_info.type = "BOUNDARY" ->
            to_layer_identifier(layer_info, layer_info.direction) \in DOMAIN allocated_channels
      [] layer_info.type = "INTER_CONTEXT" /\ layer_info.direction = D2H ->
            <<layer_info.src_context_index, layer_info.stream_index>> \in inter_context_buffers
      [] layer_info.type = "DDR" /\ layer_info.direction = D2H ->
            DdrChannelsInfo(layer_info.context_index, layer_info.dst_stream_index,
                            layer_info.src_stream_index) \in ddr_channels_pairs
      [] OTHER -> FALSE

\* C31: within one compile each edge layer is wired at most once, with the
\* run-as-soon-as-possible feature as well: a layer that is filled has no
\* boundary channel, inter-context buffer or ddr channels pair from an
\* earlier wiring.
C31_WiredAtMostOnce ==
    [][(compile_pc = "fill_edge_layers" /\ pending_layers # <<>>
            /\ wired' = Append(wired, Head(pending_layers)))
        => ~AlreadyWired(Head(pending_layers))]_vars

(***************************************************************************)
(* C32                                                                     *)
(***************************************************************************)
\* the positions of the allow-input-dataflow actions of the operation
AllowInputDataflowPositions ==
    { i \in DOMAIN operation : operation[i].action_case = "kAllowInputDataflow" }

\* the operation has allow-input-dataflow actions and they are consecutive
ConsecutiveInputDataflow ==
    /\ AllowInputDataflowPositions # {}
    /\ \A i \in AllowInputDataflowPositions : \A j \in AllowInputDataflowPositions :
            \A k \in i..j : k \in AllowInputDataflowPositions

\* C32: in an eligible operation whose allow-input-dataflow actions are
\* consecutive, whatever their connection types, pass B finds one run of
\* new-input-data actions: it does not fail and places one position marker.
C32_ConsecutiveInputDataflowIsOneRun ==
    [][(EdgeLayerStep /\ EligibleOperation /\ ConsecutiveInputDataflow) =>
        /\ pc' = "handle_repeated_actions"
        /\ status' = status
        /\ Cardinality(Positions(configuration_actions', IsMarker)) = 1
      ]_vars

(***************************************************************************)
(* C33                                                                     *)
(***************************************************************************)
\* the ddr channels pairs created for the context of a ddr input layer whose
\* stream indexes are those of the layer
PairsOfInput(layer_info) ==
    { info \in ddr_channels_pairs :
        /\ info.context_index = layer_info.context_index
        /\ info.h2d_stream_index = layer_info.dst_stream_index
        /\ info.d2h_stream_index = layer_info.src_stream_index }

\* C33: in a context the ddr pairing check has accepted, the filling of a ddr
\* input layer finds a ddr channels pair that the filling of a ddr output
\* layer of the context has created, with the h2d and d2h stream indexes of
\* the input layer, and does not fail.
C33_DdrInputFindsItsPair ==
    [][(compile_pc = "fill_edge_layers" /\ pending_layers # <<>>
            /\ Head(pending_layers).type = "DDR" /\ Head(pending_layers).direction = H2D)
        => /\ PairsOfInput(Head(pending_layers)) # {}
           /\ compile_pc' # "failed"
      ]_vars

(***************************************************************************)
(* C34                                                                     *)
(***************************************************************************)
\* the inter-context layers of a direction of the context with an index
InterContextLayersOf(index_of_context, direction) ==
    LET layers == get_layer_infos(network_group.contexts[index_of_context + 1].metadata,
                                  "INTER_CONTEXT", direction, index_of_context)
    IN  { layers[i] : i \in DOMAIN layers }

ContextIndexes == 0..(Len(network_group.contexts) - 1)

\* the inter-context output layer that produces the buffer of an input layer
\* is filled before the input layer: it is a layer of an earlier context or
\* of the context of the input layer, whose outputs are filled first
ProducedEarlier(input_layer) ==
    \E k \in ContextIndexes :
        /\ k <= input_layer.context_index
        /\ k = input_layer.src_context_index
        /\ \E output_layer \in InterContextLayersOf(k, D2H) :
                output_layer.stream_index = input_layer.src_stream_index

\* C34: create_resources_manager returns HAILO_SUCCESS only if the buffer of
\* every inter-context input layer, keyed by its source context index and
\* source stream index, has been created by the filling of the inter-context
\* output layer that produces it, earlier in the compile; an input layer whose
\* producer is filled later or never makes the compile fail.
C34_InputBufferProducedEarlier ==
    compile_status = "HAILO_SUCCESS" =>
        \A k \in ContextIndexes :
            \A input_layer \in InterContextLayersOf(k, H2D) : ProducedEarlier(input_layer)

\* a compile has succeeded on an inter-context input layer of the second
\* context whose buffer the first context produces
C34_Witness ==
    /\ compile_status = "HAILO_SUCCESS"
    /\ Len(network_group.contexts) = 2
    /\ \E input_layer \in InterContextLayersOf(1, H2D) :
            input_layer.src_context_index = 0 /\ ProducedEarlier(input_layer)

\* a compile has failed on an inter-context input layer of the first context
\* whose buffer the second context produces
C34_WitnessProducedLater ==
    /\ compile_pc = "failed"
    /\ compile_status = "HAILO_NOT_FOUND"
    /\ Len(network_group.contexts) = 2
    /\ \E input_layer \in InterContextLayersOf(0, H2D) :
            /\ input_layer.src_context_index = 1
            /\ \E output_layer \in InterContextLayersOf(1, D2H) :
                    output_layer.stream_index = input_layer.src_stream_index

(***************************************************************************)
(* C35                                                                     *)
(***************************************************************************)
\* the for loop of create_resources_manager goes to its next iteration or
\* ends
LoopStep == compile_pc = "parse_operations" /\ compile_pc' # compile_pc /\ compile_pc' # "failed"

MaxQueueSize == 2
\* the most calls of enqueue the producer makes
MaxEnqueues == 4

hef_vars == <<operation_vars, configuration_actions, pc, status, ddr_vars, compile_vars,
              repeated_vars, layers_vars, pack_vars>>

\* nothing of a HEF is being parsed or compiled
NoHef ==
    /\ operation = <<>>
    /\ support_pre_fetch = FALSE
    /\ is_preliminary_context = FALSE
    /\ is_first_operation = FALSE
    /\ preliminary_run_asap = FALSE
    /\ ddr_channel_pairs = <<>>
    /\ NotStarted
    /\ NoDdrCheck
    /\ NotCompiling
    /\ NoNetworkGroup
    /\ NotRepeating
    /\ NoLayers
    /\ NotPacking

\* SpscQueue::create: the status of the Expected it returns
SpscQueue_create(max_size) ==
    IF 0 = max_size THEN "HAILO_INVALID_ARGUMENT" ELSE "HAILO_SUCCESS"

\* WaitOrShutdown::wait and Semaphore::wait on a semaphore of the given
\* value: the shutdown event goes first, and the wait times out when the
\* semaphore has nothing to take
sema_wait(sema, shutdown, ignore_shutdown_event) ==
    IF shutdown /\ ~ignore_shutdown_event THEN "HAILO_SHUTDOWN_EVENT_SIGNALED"
    ELSE IF sema > 0 THEN "HAILO_SUCCESS"
    ELSE "HAILO_TIMEOUT"

\* WaitOrShutdown::signal: what it may return
SignalResults == {"HAILO_SUCCESS", "HAILO_INTERNAL_FAILURE"}

\* T{}: the value of an item that was not dequeued
NoItem == 0

CANT_ENQUEUE == "m_cant_enqueue_callback"
CAN_ENQUEUE == "m_can_enqueue_callback"

InitQueue ==
    /\ \E max_size \in 0..MaxQueueSize :
          /\ SpscQueue_create(max_size) = "HAILO_SUCCESS"
          /\ m_size = max_size
          /\ m_items_dequeued_sema = max_size
    /\ m_inner = <<>>
    /\ m_items_enqueued_sema = 0
    /\ m_enqueues_count = 0
    /\ m_cant_enqueue_callback \in BOOLEAN
    /\ m_can_enqueue_callback \in BOOLEAN
    /\ shutdown_event = FALSE
    /\ producer = [pc |-> "idle", status |-> "HAILO_UNINITIALIZED", enqueues |-> 0]
    /\ consumer = [pc |-> "idle", status |-> "HAILO_UNINITIALIZED", result |-> NoItem]
    /\ callback_calls = <<>>
    /\ NoHef
    /\ NoPool
    /\ NoWrapper
    /\ NoCoreOp

UnchangedButQueue == UNCHANGED <<hef_vars, pool_vars, wrapper_vars, core_op_vars>>

\* enqueue that goes on to try_enqueue whatever the wait returned
EnqueueWait_through_timeout ==
    /\ producer.pc = "idle"
    /\ producer.enqueues < MaxEnqueues
    /\ m_items_dequeued_sema' = IF m_items_dequeued_sema > 0 THEN m_items_dequeued_sema - 1 ELSE 0
    /\ producer' = [producer EXCEPT !.pc = "try_enqueue", !.enqueues = @ + 1]
    /\ UNCHANGED <<m_size, m_inner, m_items_enqueued_sema, m_enqueues_count,
                   m_cant_enqueue_callback, m_can_enqueue_callback, shutdown_event,
                   consumer, callback_calls>>
    /\ UnchangedButQueue

\* enqueue, up to the return on a wait that did not succeed: the item is the
\* number of the call
EnqueueWait ==
    /\ producer.pc = "idle"
    /\ producer.enqueues < MaxEnqueues
    /\ \E ignore_shutdown_event \in BOOLEAN :
        LET wait_result == sema_wait(m_items_dequeued_sema, shutdown_event, ignore_shutdown_event) IN
        IF "HAILO_SUCCESS" # wait_result
        THEN /\ producer' = [producer EXCEPT !.status = wait_result, !.enqueues = @ + 1]
             /\ UNCHANGED m_items_dequeued_sema
        ELSE /\ producer' = [producer EXCEPT !.pc = "try_enqueue", !.enqueues = @ + 1]
             /\ m_items_dequeued_sema' = m_items_dequeued_sema - 1
    /\ UNCHANGED <<m_size, m_inner, m_items_enqueued_sema, m_enqueues_count,
                   m_cant_enqueue_callback, m_can_enqueue_callback, shutdown_event,
                   consumer, callback_calls>>
    /\ UnchangedButQueue

\* enqueue: m_inner.try_enqueue(result)
EnqueueTryEnqueue ==
    /\ producer.pc = "try_enqueue"
    /\ m_inner' = Append(m_inner, producer.enqueues)
    /\ producer' = [producer EXCEPT !.pc = "callback"]
    /\ UNCHANGED <<m_size, m_items_enqueued_sema, m_items_dequeued_sema, m_enqueues_count,
                   m_cant_enqueue_callback, m_can_enqueue_callback, shutdown_event,
                   consumer, callback_calls>>
    /\ UnchangedButQueue

\* enqueue: the block that holds m_callback_mutex
EnqueueCallback ==
    /\ producer.pc = "callback"
    /\ m_enqueues_count' = m_enqueues_count + 1
    /\ callback_calls' = IF (m_size = m_enqueues_count') /\ m_cant_enqueue_callback
                         THEN Append(callback_calls, CANT_ENQUEUE)
                         ELSE callback_calls
    /\ producer' = [producer EXCEPT !.pc = "signal"]
    /\ UNCHANGED <<m_size, m_inner, m_items_enqueued_sema, m_items_dequeued_sema,
                   m_cant_enqueue_callback, m_can_enqueue_callback, shutdown_event,
                   consumer>>
    /\ UnchangedButQueue

\* enqueue: return m_items_enqueued_sema_or_shutdown.signal()
EnqueueSignal ==
    /\ producer.pc = "signal"
    /\ \E signal_result \in SignalResults :
          /\ m_items_enqueued_sema' = IF signal_result = "HAILO_SUCCESS"
                                      THEN m_items_enqueued_sema + 1
                                      ELSE m_items_enqueued_sema
          /\ producer' = [producer EXCEPT !.pc = "idle", !.status = signal_result]
    /\ UNCHANGED <<m_size, m_inner, m_items_dequeued_sema, m_enqueues_count,
                   m_cant_enqueue_callback, m_can_enqueue_callback, shutdown_event,
                   consumer, callback_calls>>
    /\ UnchangedButQueue

\* dequeue, up to the return on a wait that did not succeed; clear() calls it
\* with ignore_shutdown_event
DequeueWait ==
    /\ consumer.pc = "idle"
    /\ \E ignore_shutdown_event \in BOOLEAN :
        LET wait_result == sema_wait(m_items_enqueued_sema, shutdown_event, ignore_shutdown_event) IN
        IF "HAILO_SUCCESS" # wait_result
        THEN /\ consumer' = [consumer EXCEPT !.status = wait_result, !.result = NoItem]
             /\ UNCHANGED m_items_enqueued_sema
        ELSE /\ consumer' = [consumer EXCEPT !.pc = "try_dequeue"]
             /\ m_items_enqueued_sema' = m_items_enqueued_sema - 1
    /\ UNCHANGED <<m_size, m_inner, m_items_dequeued_sema, m_enqueues_count,
                   m_cant_enqueue_callback, m_can_enqueue_callback, shutdown_event,
                   producer, callback_calls>>
    /\ UnchangedButQueue

\* dequeue: m_inner.try_dequeue(result), which leaves T{} when m_inner is empty
DequeueTryDequeue ==
    /\ consumer.pc = "try_dequeue"
    /\ IF m_inner # <<>>
       THEN /\ consumer' = [consumer EXCEPT !.pc = "callback", !.result = Head(m_inner)]
            /\ m_inner' = Tail(m_inner)
       ELSE /\ consumer' = [consumer EXCEPT !.pc = "callback", !.result = NoItem]
            /\ UNCHANGED m_inner
    /\ UNCHANGED <<m_size, m_items_enqueued_sema, m_items_dequeued_sema, m_enqueues_count,
                   m_cant_enqueue_callback, m_can_enqueue_callback, shutdown_event,
                   producer, callback_calls>>
    /\ UnchangedButQueue

\* dequeue that decrements m_enqueues_count before it compares it to m_size
DequeueCallback_decrementing_first ==
    /\ consumer.pc = "callback"
    /\ m_enqueues_count' = m_enqueues_count - 1
    /\ callback_calls' = IF (m_size = m_enqueues_count') /\ m_can_enqueue_callback
                         THEN Append(callback_calls, CAN_ENQUEUE)
                         ELSE callback_calls
    /\ consumer' = [consumer EXCEPT !.pc = "signal"]
    /\ UNCHANGED <<m_size, m_inner, m_items_enqueued_sema, m_items_dequeued_sema,
                   m_cant_enqueue_callback, m_can_enqueue_callback, shutdown_event,
                   producer>>
    /\ UnchangedButQueue

\* dequeue: the block that holds m_callback_mutex
DequeueCallback ==
    /\ consumer.pc = "callback"
    /\ callback_calls' = IF (m_size = m_enqueues_count) /\ m_can_enqueue_callback
                         THEN Append(callback_calls, CAN_ENQUEUE)
                         ELSE callback_calls
    /\ m_enqueues_count' = m_enqueues_count - 1
    /\ consumer' = [consumer EXCEPT !.pc = "signal"]
    /\ UNCHANGED <<m_size, m_inner, m_items_enqueued_sema, m_items_dequeued_sema,
                   m_cant_enqueue_callback, m_can_enqueue_callback, shutdown_event,
                   producer>>
    /\ UnchangedButQueue

\* dequeue: m_items_dequeued_sema_or_shutdown.signal() and the return
DequeueSignal ==
    /\ consumer.pc = "signal"
    /\ \E signal_result \in SignalResults :
          /\ m_items_dequeued_sema' = IF signal_result = "HAILO_SUCCESS"
                                      THEN m_items_dequeued_sema + 1
                                      ELSE m_items_dequeued_sema
          /\ consumer' = [consumer EXCEPT !.pc = "idle", !.status = signal_result,
                                          !.result = IF signal_result = "HAILO_SUCCESS"
                                                     THEN @ ELSE NoItem]
    /\ UNCHANGED <<m_size, m_inner, m_items_enqueued_sema, m_enqueues_count,
                   m_cant_enqueue_callback, m_can_enqueue_callback, shutdown_event,
                   producer, callback_calls>>
    /\ UnchangedButQueue

\* the owner of the queue signals the shutdown event
SignalShutdown ==
    /\ m_size > 0
    /\ ~shutdown_event
    /\ shutdown_event' = TRUE
    /\ UNCHANGED <<m_size, m_inner, m_items_enqueued_sema, m_items_dequeued_sema,
                   m_enqueues_count, m_cant_enqueue_callback, m_can_enqueue_callback,
                   producer, consumer, callback_calls>>
    /\ UnchangedButQueue

NextQueue ==
    \/ EnqueueWait
    \/ EnqueueTryEnqueue
    \/ EnqueueCallback
    \/ EnqueueSignal
    \/ DequeueWait
    \/ DequeueTryDequeue
    \/ DequeueCallback
    \/ DequeueSignal
    \/ SignalShutdown

SpecQueue == InitQueue /\ [][NextQueue]_vars

(***************************************************************************)
(* C36                                                                     *)
(***************************************************************************)
\* the producer calls enqueue in this step
EnqueueAttempted == producer.pc = "idle" /\ producer'.enqueues = producer.enqueues + 1

Alternating(calls) ==
    \A i \in DOMAIN calls : calls[i] = IF i % 2 = 1 THEN CANT_ENQUEUE ELSE CAN_ENQUEUE

\* C37 as stated: the callbacks invoked alternate and start with cant-enqueue
C37_CallbacksAlternate == Alternating(callback_calls)

\* C37: on a queue that has both callbacks registered before the threads
\* start, the callbacks invoked alternate and start with cant-enqueue.
C37_RegisteredCallbacksAlternate ==
    (m_cant_enqueue_callback /\ m_can_enqueue_callback) => Alternating(callback_calls)

\* the queue with both callbacks has become full, not full and full again
C37_Witness ==
    /\ m_cant_enqueue_callback
    /\ m_can_enqueue_callback
    /\ callback_calls = <<CANT_ENQUEUE, CAN_ENQUEUE, CANT_ENQUEUE>>

(***************************************************************************)
(* CircularStreamBufferPool (vdma/circular_stream_buffer_pool.cpp)         *)
(***************************************************************************)
\* descs_count of a pool goes up to 2^MaxDescsShift
MaxDescsShift == 3
\* the largest desc_page_size of a pool
MaxDescPageSize == 2

RECURSIVE is_powerof2(_)
is_powerof2(v) == v = 1 \/ (v > 1 /\ v % 2 = 0 /\ is_powerof2(v \div 2))

DIV_ROUND_UP(n, d) == (n + d - 1) \div d

\* the circbuf_t macros: head and tail run over 0 .. size - 1
CB_INIT(size) == [head |-> 0, tail |-> 0, size |-> size, size_mask |-> size - 1]
CB_RESET(circbuf) == [circbuf EXCEPT !.head = 0, !.tail = 0]
CB_PROG(circbuf, head, tail) == (head - tail) % circbuf.size
CB_AVAIL(circbuf, head, tail) == (tail - (head + 1)) % circbuf.size
CB_ENQUEUE(circbuf, value) == [circbuf EXCEPT !.head = (@ + value) % circbuf.size]
CB_DEQUEUE(circbuf, value) == [circbuf EXCEPT !.tail = (@ + value) % circbuf.size]

\* CircularStreamBufferPool::create, up to the allocation of the buffer
CircularStreamBufferPool_create(desc_page_size, descs_count, transfer_size) ==
    IF ~is_powerof2(descs_count) THEN "HAILO_INTERNAL_FAILURE"
    ELSE IF ~is_powerof2(desc_page_size) THEN "HAILO_INTERNAL_FAILURE"
    ELSE IF ~(transfer_size < desc_page_size * descs_count) THEN "HAILO_INTERNAL_FAILURE"
    ELSE "HAILO_SUCCESS"

\* vdma::DescriptorList::descriptors_in_buffer
descriptors_in_buffer(buffer_size, desc_page_size) == DIV_ROUND_UP(buffer_size, desc_page_size)

descs_in_transfer == descriptors_in_buffer(m_transfer_size, m_desc_page_size)

max_queue_size == (m_queue.size - 1) \div DIV_ROUND_UP(m_transfer_size, m_desc_page_size)

buffers_ready_to_dequeue == CB_PROG(m_queue, m_queue.head, m_queue.tail) \div descs_in_transfer

\* m_base_buffer.size()
base_buffer_size == m_desc_page_size * m_queue.size

\* the pools create returns, as the constructor leaves them; a transfer has at
\* least one byte
InitPool ==
    /\ \E desc_page_size \in 1..MaxDescPageSize, descs_count \in 1..(2^MaxDescsShift) :
        \E transfer_size \in 1..(desc_page_size * descs_count) :
          /\ CircularStreamBufferPool_create(desc_page_size, descs_count, transfer_size) = "HAILO_SUCCESS"
          /\ m_desc_page_size = desc_page_size
          /\ m_transfer_size = transfer_size
          /\ m_queue = [CB_INIT(descs_count) EXCEPT !.head = descs_count - 1]
    /\ m_next_enqueue_desc_offset = 0
    /\ pool_call = NoCall
    /\ dequeued_buffers = <<>>
    /\ NoHef
    /\ NoQueue
    /\ NoWrapper
    /\ NoCoreOp

UnchangedButPool == UNCHANGED <<hef_vars, queue_vars, wrapper_vars, core_op_vars>>

\* dequeue without the check of buffers_ready_to_dequeue
PoolDequeue_unchecked ==
    /\ m_queue.size > 0
    /\ LET offset_in_buffer == m_queue.tail * m_desc_page_size IN
        /\ m_queue' = CB_DEQUEUE(m_queue, descs_in_transfer)
        /\ pool_call' = [function |-> "dequeue", status |-> "HAILO_SUCCESS",
                         size |-> m_transfer_size, offset |-> offset_in_buffer]
        /\ dequeued_buffers' = Append(dequeued_buffers, offset_in_buffer)
    /\ UNCHANGED <<m_desc_page_size, m_transfer_size, m_next_enqueue_desc_offset>>
    /\ UnchangedButPool

\* CircularStreamBufferPool::dequeue
PoolDequeue ==
    /\ m_queue.size > 0
    /\ IF ~(buffers_ready_to_dequeue > 0)
       THEN /\ pool_call' = [function |-> "dequeue", status |-> "HAILO_INTERNAL_FAILURE"]
            /\ UNCHANGED <<m_queue, dequeued_buffers>>
       ELSE LET offset_in_buffer == m_queue.tail * m_desc_page_size IN
            /\ m_queue' = CB_DEQUEUE(m_queue, descs_in_transfer)
            /\ pool_call' = [function |-> "dequeue", status |-> "HAILO_SUCCESS",
                             size |-> m_transfer_size, offset |-> offset_in_buffer]
            /\ dequeued_buffers' = Append(dequeued_buffers, offset_in_buffer)
    /\ UNCHANGED <<m_desc_page_size, m_transfer_size, m_next_enqueue_desc_offset>>
    /\ UnchangedButPool

\* the sequence without its first element equal to e
RECURSIVE RemoveFirst(_, _)
RemoveFirst(seq, e) ==
    IF seq = <<>> THEN <<>>
    ELSE IF Head(seq) = e THEN Tail(seq)
    ELSE <<Head(seq)>> \o RemoveFirst(Tail(seq), e)

\* the TransferBuffers a caller may hand to enqueue: of this pool's base
\* buffer or of another, of any size and offset
TransferBuffers ==
    [is_base_buffer : BOOLEAN,
     size : {m_transfer_size, m_transfer_size + 1},
     offset : 0..(base_buffer_size - 1)]

\* CircularStreamBufferPool::enqueue
PoolEnqueue ==
    /\ m_queue.size > 0
    /\ \E buffer_info \in TransferBuffers :
        LET descs_required == descs_in_transfer
            descs_available == CB_AVAIL(m_queue, m_queue.head, m_queue.tail)
            expected_offset == m_next_enqueue_desc_offset * m_desc_page_size
        IN  IF \/ ~(descs_available >= descs_required)
               \/ ~buffer_info.is_base_buffer
               \/ ~(buffer_info.size = m_transfer_size)
               \/ ~(buffer_info.offset = expected_offset)
            THEN /\ pool_call' = [function |-> "enqueue", status |-> "HAILO_INTERNAL_FAILURE"]
                 /\ UNCHANGED <<m_queue, m_next_enqueue_desc_offset, dequeued_buffers>>
            ELSE /\ m_queue' = CB_ENQUEUE(m_queue, descs_required)
                 /\ m_next_enqueue_desc_offset' =
                        (m_next_enqueue_desc_offset + descs_required) % m_queue.size
                 /\ pool_call' = [function |-> "enqueue", status |-> "HAILO_SUCCESS"]
                 /\ dequeued_buffers' = RemoveFirst(dequeued_buffers, buffer_info.offset)
    /\ UNCHANGED <<m_desc_page_size, m_transfer_size>>
    /\ UnchangedButPool

\* CircularStreamBufferPool::reset_pointers: the buffers handed out before it
\* are no longer counted
ResetPointers ==
    /\ m_queue.size > 0
    /\ m_queue' = [CB_RESET(m_queue) EXCEPT !.head = m_queue.size - 1]
    /\ m_next_enqueue_desc_offset' = 0
    /\ pool_call' = [function |-> "reset_pointers", status |-> "HAILO_SUCCESS"]
    /\ dequeued_buffers' = <<>>
    /\ UNCHANGED <<m_desc_page_size, m_transfer_size>>
    /\ UnchangedButPool

NextPool ==
    \/ PoolDequeue
    \/ PoolEnqueue
    \/ ResetPointers

SpecPool == InitPool /\ [][NextPool]_vars

(***************************************************************************)
(* C38                                                                     *)
(***************************************************************************)
\* the bytes of the base buffer a TransferBuffer at the offset covers: a
\* buffer that reaches the end of the base buffer goes on at its start
BytesOf(offset) == { (offset + i) % base_buffer_size : i \in 0..(m_transfer_size - 1) }

\* dequeue returns a buffer in this step
DequeueReturnsBuffer == Len(dequeued_buffers') = Len(dequeued_buffers) + 1

\* C38: from the initial state or a reset, the bytes of the buffer a dequeue
\* returns are disjoint from the bytes of every buffer dequeued before and
\* not enqueued since, and no more than max_queue_size() buffers are dequeued
\* and not enqueued.
C38_DequeuedBuffersDisjoint ==
    [][/\ DequeueReturnsBuffer =>
            \A i \in DOMAIN dequeued_buffers :
                BytesOf(dequeued_buffers[i]) \cap BytesOf(pool_call'.offset) = {}
       /\ Len(dequeued_buffers') <= max_queue_size
      ]_vars

\* max_queue_size() buffers are out, the last of them wraps around the end of
\* the base buffer, and buffers have been enqueued back before
C38_Witness ==
    /\ pool_call.function = "dequeue"
    /\ pool_call.status = "HAILO_SUCCESS"
    /\ pool_call.offset + m_transfer_size > base_buffer_size
    /\ Len(dequeued_buffers) = max_queue_size
    /\ max_queue_size >= 2

(***************************************************************************)
(* VDeviceInputStreamMultiplexerWrapper and                                *)
(* VDeviceOutputStreamMultiplexerWrapper                                   *)
(* (vdevice/vdevice_stream_multiplexer_wrapper.cpp): one wrapper of each   *)
(* class, each called by a thread of its own                               *)
(***************************************************************************)
StreamWrappers == {"VDeviceInputStreamMultiplexerWrapper", "VDeviceOutputStreamMultiplexerWrapper"}

\* what disable_stream, enable_stream and run_once_for_stream of the
\* multiplexer may return
MultiplexerStatuses == {"HAILO_SUCCESS", "HAILO_INTERNAL_FAILURE", "HAILO_NOT_FOUND"}

\* the call of a wrapper that has returned the status
Returned(function, returned_status) ==
    [function |-> function, pc |-> "idle", status |-> returned_status]

\* the call of a wrapper that has come to the step
Calling(function, step) ==
    [function |-> function, pc |-> step, status |-> "HAILO_UNINITIALIZED"]

\* the wrappers as their constructors leave them, their streams enabled in
\* the multiplexer
InitWrapper ==
    /\ m_is_aborted = [wrapper \in StreamWrappers |-> FALSE]
    /\ is_stream_enabled = [wrapper \in StreamWrappers |-> TRUE]
    /\ wrapper_call = [wrapper \in StreamWrappers |-> Returned("none", "HAILO_UNINITIALIZED")]
    /\ NoHef
    /\ NoQueue
    /\ NoPool
    /\ NoCoreOp

UnchangedButWrapper == UNCHANGED <<hef_vars, queue_vars, pool_vars, core_op_vars>>

\* abort(), up to the call of disable_stream
Abort ==
    /\ m_is_aborted # <<>>
    /\ \E wrapper \in StreamWrappers :
        /\ wrapper_call[wrapper].pc = "idle"
        /\ IF m_is_aborted[wrapper]
           THEN /\ wrapper_call' = [wrapper_call EXCEPT ![wrapper] = Returned("abort", "HAILO_SUCCESS")]
                /\ UNCHANGED m_is_aborted
           ELSE /\ m_is_aborted' = [m_is_aborted EXCEPT ![wrapper] = TRUE]
                /\ wrapper_call' = [wrapper_call EXCEPT ![wrapper] = Calling("abort", "disable_stream")]
    /\ UNCHANGED is_stream_enabled
    /\ UnchangedButWrapper

\* abort(): disable_stream, which disables the stream when it succeeds and
\* leaves it as it is when it fails
AbortDisableStream ==
    /\ m_is_aborted # <<>>
    /\ \E wrapper \in StreamWrappers, disable_status \in MultiplexerStatuses :
        /\ wrapper_call[wrapper] = Calling("abort", "disable_stream")
        /\ IF disable_status # "HAILO_SUCCESS"
           THEN /\ wrapper_call' = [wrapper_call EXCEPT ![wrapper] = Returned("abort", disable_status)]
                /\ UNCHANGED is_stream_enabled
           ELSE /\ is_stream_enabled' = [is_stream_enabled EXCEPT ![wrapper] = FALSE]
                /\ wrapper_call' = [wrapper_call EXCEPT ![wrapper] = Calling("abort", "run_once_for_stream")]
    /\ UNCHANGED m_is_aborted
    /\ UnchangedButWrapper

\* abort(): notify_all of the input stream, run_once_for_stream and the return
AbortRunOnce ==
    /\ m_is_aborted # <<>>
    /\ \E wrapper \in StreamWrappers, run_once_status \in MultiplexerStatuses :
        /\ wrapper_call[wrapper] = Calling("abort", "run_once_for_stream")
        /\ wrapper_call' = [wrapper_call EXCEPT ![wrapper] = Returned("abort", run_once_status)]
    /\ UNCHANGED <<m_is_aborted, is_stream_enabled>>
    /\ UnchangedButWrapper

\* clear_abort(), up to the call of enable_stream
ClearAbort ==
    /\ m_is_aborted # <<>>
    /\ \E wrapper \in StreamWrappers :
        /\ wrapper_call[wrapper].pc = "idle"
        /\ IF ~m_is_aborted[wrapper]
           THEN /\ wrapper_call' = [wrapper_call EXCEPT ![wrapper] = Returned("clear_abort", "HAILO_SUCCESS")]
                /\ UNCHANGED m_is_aborted
           ELSE /\ m_is_aborted' = [m_is_aborted EXCEPT ![wrapper] = FALSE]
                /\ wrapper_call' = [wrapper_call EXCEPT ![wrapper] = Calling("clear_abort", "enable_stream")]
    /\ UNCHANGED is_stream_enabled
    /\ UnchangedButWrapper

\* clear_abort(): enable_stream, which enables the stream when it succeeds
\* and leaves it as it is when it fails
ClearAbortEnableStream ==
    /\ m_is_aborted # <<>>
    /\ \E wrapper \in StreamWrappers, enable_status \in MultiplexerStatuses :
        /\ wrapper_call[wrapper] = Calling("clear_abort", "enable_stream")
        /\ IF enable_status # "HAILO_SUCCESS"
           THEN /\ wrapper_call' = [wrapper_call EXCEPT ![wrapper] = Returned("clear_abort", enable_status)]
                /\ UNCHANGED is_stream_enabled
           ELSE /\ is_stream_enabled' = [is_stream_enabled EXCEPT ![wrapper] = TRUE]
                /\ wrapper_call' = [wrapper_call EXCEPT ![wrapper] = Calling("clear_abort", "run_once_for_stream")]
    /\ UNCHANGED m_is_aborted
    /\ UnchangedButWrapper

\* clear_abort(): run_once_for_stream, notify_all of the input stream and the
\* return
ClearAbortRunOnce ==
    /\ m_is_aborted # <<>>
    /\ \E wrapper \in StreamWrappers, run_once_status \in MultiplexerStatuses :
        /\ wrapper_call[wrapper] = Calling("clear_abort", "run_once_for_stream")
        /\ wrapper_call' = [wrapper_call EXCEPT ![wrapper] = Returned("clear_abort", run_once_status)]
    /\ UNCHANGED <<m_is_aborted, is_stream_enabled>>
    /\ UnchangedButWrapper

NextWrapper ==
    \/ Abort
    \/ AbortDisableStream
    \/ AbortRunOnce
    \/ ClearAbort
    \/ ClearAbortEnableStream
    \/ ClearAbortRunOnce

SpecWrapper == InitWrapper /\ [][NextWrapper]_vars

(***************************************************************************)
(* C39                                                                     *)
(***************************************************************************)
\* C39: when abort() of a wrapper has returned HAILO_SUCCESS its stream is
\* disabled in the multiplexer, and when clear_abort() has returned
\* HAILO_SUCCESS its stream is enabled, also when the call follows a call
\* that returned an error.
C39_SuccessMeansStreamSwitched ==
    \A wrapper \in DOMAIN wrapper_call :
        /\ wrapper_call[wrapper] = Returned("abort", "HAILO_SUCCESS")
                => ~is_stream_enabled[wrapper]
        /\ wrapper_call[wrapper] = Returned("clear_abort", "HAILO_SUCCESS")
                => is_stream_enabled[wrapper]

(***************************************************************************)
(* VdmaConfigCoreOp (vdma/vdma_config_core_op.cpp): activate_impl,         *)
(* deactivate_impl and shutdown; every call deactivate_impl makes is a     *)
(* step, and each of them may fail                                         *)
(***************************************************************************)
\* one stream of m_input_streams and one of m_output_streams
CoreOpStreams == {"m_input_streams", "m_output_streams"}

\* what the calls of the resources manager, the streams and the device may
\* return
CoreOpStatuses == {"HAILO_SUCCESS", "HAILO_INTERNAL_FAILURE"}

LOW_LEVEL_STREAMS == "low_level_streams"
INTERRUPTS_DISPATCHER == "vdma_interrupts_dispatcher"
TRANSFER_LAUNCHER == "vdma_transfer_launcher"

\* no function of the core op is running
CoreOpIdle == [function |-> "none", step |-> "idle"]

\* the function has come to the step
CoreOpAt(function, step) == [function |-> function, step |-> step]

InitCoreOp ==
    /\ core_op_pc = CoreOpIdle
    /\ core_op_status = "HAILO_UNINITIALIZED"
    /\ state_machine_enabled = FALSE
    /\ host_resources = {}
    /\ pending_transfers = {}
    /\ deactivation = {}
    /\ NoHef
    /\ NoQueue
    /\ NoPool
    /\ NoWrapper

UnchangedButCoreOp == UNCHANGED <<hef_vars, queue_vars, pool_vars, wrapper_vars>>

\* activate_host_resources: the resources started before the first call that
\* fails, and the status
activate_host_resources(launcher_status, dispatcher_status, streams_status) ==
    IF launcher_status # "HAILO_SUCCESS"
    THEN [status |-> launcher_status, started |-> {}]
    ELSE IF dispatcher_status # "HAILO_SUCCESS"
    THEN [status |-> dispatcher_status, started |-> {TRANSFER_LAUNCHER}]
    ELSE IF streams_status # "HAILO_SUCCESS"
    THEN [status |-> streams_status, started |-> {TRANSFER_LAUNCHER, INTERRUPTS_DISPATCHER}]
    ELSE [status |-> "HAILO_SUCCESS",
          started |-> {TRANSFER_LAUNCHER, INTERRUPTS_DISPATCHER, LOW_LEVEL_STREAMS}]

\* activate_impl of a core op that is not active
ActivateImpl ==
    /\ core_op_pc = CoreOpIdle
    /\ ~state_machine_enabled
    /\ \E register_status \in CoreOpStatuses, batch_size_fits \in BOOLEAN,
          enable_status \in CoreOpStatuses, launcher_status \in CoreOpStatuses,
          dispatcher_status \in CoreOpStatuses, streams_status \in CoreOpStatuses :
        IF register_status # "HAILO_SUCCESS"
        THEN /\ core_op_status' = register_status
             /\ UNCHANGED <<state_machine_enabled, host_resources>>
        ELSE IF ~batch_size_fits
        THEN /\ core_op_status' = "HAILO_INVALID_ARGUMENT"
             /\ UNCHANGED <<state_machine_enabled, host_resources>>
        ELSE IF enable_status # "HAILO_SUCCESS"
        THEN /\ core_op_status' = enable_status
             /\ UNCHANGED <<state_machine_enabled, host_resources>>
        ELSE LET activated == activate_host_resources(launcher_status, dispatcher_status,
                                                      streams_status) IN
             /\ state_machine_enabled' = TRUE
             /\ host_resources' = host_resources \cup activated.started
             /\ core_op_status' = activated.status
    /\ UNCHANGED <<core_op_pc, pending_transfers, deactivation>>
    /\ UnchangedButCoreOp

\* a transfer is launched on a stream of the active core op
LaunchTransfer ==
    /\ core_op_pc = CoreOpIdle
    /\ host_resources = {TRANSFER_LAUNCHER, INTERRUPTS_DISPATCHER, LOW_LEVEL_STREAMS}
    /\ \E stream \in CoreOpStreams :
          /\ stream \notin pending_transfers
          /\ pending_transfers' = pending_transfers \cup {stream}
    /\ UNCHANGED <<core_op_pc, core_op_status, state_machine_enabled, host_resources,
                   deactivation>>
    /\ UnchangedButCoreOp

\* the step of deactivate_impl after a call that returned the status: the
\* return of deactivate_impl when it is not HAILO_SUCCESS. shutdown keeps the
\* status of abort_low_level_streams when deactivate_impl succeeds
AfterStep(call_status, step, next_step) ==
    IF call_status # "HAILO_SUCCESS"
    THEN /\ core_op_pc' = CoreOpIdle
         /\ core_op_status' = call_status
         /\ UNCHANGED deactivation
    ELSE /\ core_op_pc' = IF next_step = "return" THEN CoreOpIdle
                          ELSE CoreOpAt(core_op_pc.function, next_step)
         /\ core_op_status' = IF next_step = "return" /\ core_op_pc.function = "deactivate_impl"
                              THEN "HAILO_SUCCESS"
                              ELSE core_op_status
         /\ deactivation' = deactivation \cup {step}

\* deactivate_impl that goes on to cancel_pending_transfers whatever
\* reset_state_machine returned
ResetStateMachine_unchecked ==
    /\ core_op_pc.step = "reset_state_machine"
    /\ \E reset_status \in CoreOpStatuses :
          /\ state_machine_enabled' = IF reset_status = "HAILO_SUCCESS"
                                      THEN FALSE ELSE state_machine_enabled
          /\ core_op_pc' = CoreOpAt(core_op_pc.function, "cancel_pending_transfers")
          /\ deactivation' = IF reset_status = "HAILO_SUCCESS"
                             THEN deactivation \cup {"reset_state_machine"}
                             ELSE deactivation
    /\ UNCHANGED <<core_op_status, host_resources, pending_transfers>>
    /\ UnchangedButCoreOp

\* deactivate_impl is called and deactivate_host_resources calls
\* deactivate_low_level_streams
DeactivateImpl ==
    /\ core_op_pc = CoreOpIdle
    /\ core_op_pc' = CoreOpAt("deactivate_impl", "deactivate_low_level_streams")
    /\ deactivation' = {}
    /\ UNCHANGED <<core_op_status, state_machine_enabled, host_resources, pending_transfers>>
    /\ UnchangedButCoreOp

\* shutdown: abort_low_level_streams, then deactivate_impl
Shutdown ==
    /\ core_op_pc = CoreOpIdle
    /\ \E abort_status \in CoreOpStatuses : core_op_status' = abort_status
    /\ core_op_pc' = CoreOpAt("shutdown", "deactivate_low_level_streams")
    /\ deactivation' = {}
    /\ UNCHANGED <<state_machine_enabled, host_resources, pending_transfers>>
    /\ UnchangedButCoreOp

\* deactivate_host_resources: deactivate_low_level_streams
DeactivateLowLevelStreams ==
    /\ core_op_pc.step = "deactivate_low_level_streams"
    /\ \E deactivate_status \in CoreOpStatuses :
          /\ host_resources' = IF deactivate_status = "HAILO_SUCCESS"
                               THEN host_resources \ {LOW_LEVEL_STREAMS}
                               ELSE host_resources
          /\ AfterStep(deactivate_status, "deactivate_low_level_streams",
                       "stop_vdma_interrupts_dispatcher")
    /\ UNCHANGED <<state_machine_enabled, pending_transfers>>
    /\ UnchangedButCoreOp

\* deactivate_host_resources: stop_vdma_interrupts_dispatcher
StopVdmaInterruptsDispatcher ==
    /\ core_op_pc.step = "stop_vdma_interrupts_dispatcher"
    /\ \E stop_status \in CoreOpStatuses :
          /\ host_resources' = IF stop_status = "HAILO_SUCCESS"
                               THEN host_resources \ {INTERRUPTS_DISPATCHER}
                               ELSE host_resources
          /\ AfterStep(stop_status, "stop_vdma_interrupts_dispatcher",
                       "stop_vdma_transfer_launcher")
    /\ UNCHANGED <<state_machine_enabled, pending_transfers>>
    /\ UnchangedButCoreOp

\* deactivate_host_resources: stop_vdma_transfer_launcher, and the check of
\* its status in deactivate_impl
StopVdmaTransferLauncher ==
    /\ core_op_pc.step = "stop_vdma_transfer_launcher"
    /\ \E stop_status \in CoreOpStatuses :
          /\ host_resources' = IF stop_status = "HAILO_SUCCESS"
                               THEN host_resources \ {TRANSFER_LAUNCHER}
                               ELSE host_resources
          /\ AfterStep(stop_status, "stop_vdma_transfer_launcher", "reset_state_machine")
    /\ UNCHANGED <<state_machine_enabled, pending_transfers>>
    /\ UnchangedButCoreOp

\* deactivate_impl: reset_state_machine, which stops the state machine when
\* it succeeds
ResetStateMachine ==
    /\ core_op_pc.step = "reset_state_machine"
    /\ \E reset_status \in CoreOpStatuses :
          /\ state_machine_enabled' = IF reset_status = "HAILO_SUCCESS"
                                      THEN FALSE ELSE state_machine_enabled
          /\ AfterStep(reset_status, "reset_state_machine", "cancel_pending_transfers")
    /\ UNCHANGED <<host_resources, pending_transfers>>
    /\ UnchangedButCoreOp

\* deactivate_impl: cancel_pending_transfers, best effort over the input and
\* the output streams: the streams in failed return an error
CancelPendingTransfers ==
    /\ core_op_pc.step = "cancel_pending_transfers"
    /\ \E failed \in SUBSET CoreOpStreams :
          /\ pending_transfers' = pending_transfers \cap failed
          /\ AfterStep(IF failed = {} THEN "HAILO_SUCCESS" ELSE "HAILO_INTERNAL_FAILURE",
                       "cancel_pending_transfers", "unregister_cache_update_callback")
    /\ UNCHANGED <<state_machine_enabled, host_resources>>
    /\ UnchangedButCoreOp

\* deactivate_impl: unregister_cache_update_callback and the return
UnregisterCacheUpdateCallback ==
    /\ core_op_pc.step = "unregister_cache_update_callback"
    /\ \E unregister_status \in CoreOpStatuses :
          AfterStep(unregister_status, "unregister_cache_update_callback", "return")
    /\ UNCHANGED <<state_machine_enabled, host_resources, pending_transfers>>
    /\ UnchangedButCoreOp

NextCoreOp ==
    \/ ActivateImpl
    \/ LaunchTransfer
    \/ DeactivateImpl
    \/ Shutdown
    \/ DeactivateLowLevelStreams
    \/ StopVdmaInterruptsDispatcher
    \/ StopVdmaTransferLauncher
    \/ ResetStateMachine
    \/ CancelPendingTransfers
    \/ UnregisterCacheUpdateCallback

SpecCoreOp == InitCoreOp /\ [][NextCoreOp]_vars

(***************************************************************************)
(* C40                                                                     *)
(***************************************************************************)
\* the call is made in this step
Invoked(step) == core_op_pc.step = step /\ core_op_pc' # core_op_pc

\* C40: in deactivate_impl, cancel_pending_transfers is called only after
\* reset_state_machine has succeeded in this deactivation and with the state
\* machine no longer enabled, and reset_state_machine is called only after
\* the low-level streams, the interrupts dispatcher and the transfer launcher
\* have been deactivated successfully.
C40_CancelAfterResetAfterHostResources ==
    [][/\ Invoked("cancel_pending_transfers") =>
            /\ "reset_state_machine" \in deactivation
            /\ ~state_machine_enabled
       /\ Invoked("reset_state_machine") =>
            /\ {"deactivate_low_level_streams", "stop_vdma_interrupts_dispatcher",
                "stop_vdma_transfer_launcher"} \subseteq deactivation
            /\ host_resources = {}
       /\ "cancel_pending_transfers" \in deactivation' => "reset_state_machine" \in deactivation'
      ]_vars

\* the deactivation of an active core op with a pending transfer has stopped
\* the host resources, reset the state machine and then called
\* cancel_pending_transfers, which failed on the output stream
C40_Witness ==
    /\ core_op_pc = CoreOpIdle
    /\ core_op_status = "HAILO_INTERNAL_FAILURE"
    /\ deactivation = {"deactivate_low_level_streams", "stop_vdma_interrupts_dispatcher",
                       "stop_vdma_transfer_launcher", "reset_state_machine"}
    /\ pending_transfers = {"m_output_streams"}
    /\ ~state_machine_enabled
    /\ host_resources = {}

=============================================================================
